---- MODULE Spec2Model ----
(***************************************************************************)
(* Quench markdown editor: the version-tracked synchronisation protocol    *)
(* between the editing surface (webview, src/webview/main.ts) and the      *)
(* document authority (extension host, QuenchEditorProvider.ts).           *)
(*                                                                         *)
(* Texts are sequences of one-character strings.  The two postMessage      *)
(* channels of a surface are FIFO queues.  The host edit primitive         *)
(* (vscode.workspace.applyEdit) is asynchronous: the handler that called   *)
(* it is suspended at its await while other messages and document change   *)
(* notifications are handled.                                              *)
(***************************************************************************)
EXTENDS Integers, Sequences, FiniteSets, TLC

\* ---- bounds of the model ------------------------------------------------
MaxLocalEdits == 3
MaxExternal == 2
MaxInputs == 3
MaxLen == 2
MaxResourceRequests == 3
MaxLiveRequests == 2
MaxCommands == 1
MaxAttachments == 1
MaxPos == 4

\* The surfaces that have the document open.  Every change of the document
\* that is not an edit of a surface in this set (another editor, a command,
\* the disk) is an ExternalChange.
Surfaces == {"A"}
\* Characters typed in a surface, and characters inserted from outside.
TypedChars == {"a"}
ExternalChars == {"b"}

VARIABLES
    docText,               \* editor.document.getText()
    docVersion,            \* editor.document.version
    pendingApplyQueue,     \* EditorInstance.pendingApplyQueue, per surface
    applyCalls,            \* applyEdit calls whose await has not resumed yet
    extCount,              \* number of external changes made so far
    resyncSent,            \* history: the authority has sent a DOC_RESYNC
    applyFailed,           \* history: an applyEdit call has resolved false
    lastResultId,          \* history: requestId of the latest APPLY_EDIT_RESULT
                           \* sent to each surface (0: none yet)
    toExt,                 \* surface -> authority messages in flight
    toWebview,             \* authority -> surface messages in flight
    hasView,               \* view !== null
    buffer,                \* view.state.doc
    lastConfirmedVersion,
    pendingRequestIds,
    nextRequestId,
    isApplyingRemote,
    banner,
    settings,                   \* settings.security.allowExternalImages (surface)
    hostSettings,               \* getQuenchSettings(..).security.allowExternalImages
    resolvedImageCache,         \* cacheKey -> entry, per surface
    pendingResourceRequestIds,  \* requestId -> cacheKey, per surface
    nextResourceId,             \* stands for the fresh "res_<time>_<random>" ids
    statCalls,                  \* workspace.fs.stat calls not yet settled
    rendered,                   \* history: the image references the latest
                                \* render pass of each surface met
    commands,                   \* the commands started so far; the index of a
                                \* command stands for its fresh "sel_<time>_
                                \* <random>" requestId
    attachments,                \* the images pasted or dropped so far; the
                                \* index of one stands for its fresh
                                \* "att_<time>_<random>" or "ref_..." requestId
    validation,                 \* a value handed to a message validator, and
                                \* what the validator made of it
    overlap,                    \* a span and a selection handed to the
                                \* selection-overlap test, and its answer
    render,                     \* a render pass of the live preview: what it
                                \* was given and what it produced
    parse                       \* lines handed to a block parser of the live
                                \* preview, and the range it detected

histVars == <<resyncSent, applyFailed, lastResultId>>
authVars == <<docText, docVersion, pendingApplyQueue, applyCalls, extCount,
              histVars>>
surfVars == <<hasView, buffer, lastConfirmedVersion, pendingRequestIds,
              nextRequestId, isApplyingRemote, banner>>
resVars == <<settings, hostSettings, resolvedImageCache,
             pendingResourceRequestIds, nextResourceId, statCalls, rendered>>
selVars == <<commands>>
attVars == <<attachments>>
pureVars == <<validation, overlap, render, parse>>
vars == <<docText, docVersion, pendingApplyQueue, applyCalls, extCount,
          resyncSent, applyFailed, lastResultId, toExt, toWebview, hasView, buffer, lastConfirmedVersion,
          pendingRequestIds, nextRequestId, isApplyingRemote, banner,
          settings, hostSettings, resolvedImageCache,
          pendingResourceRequestIds, nextResourceId, statCalls, rendered,
          commands, attachments, validation, overlap, render, parse>>

\* ---- text changes ---------------------------------------------------------
TextChange(o, l, t) == [rangeOffset |-> o, rangeLength |-> l, text |-> t]

\* "delete rangeLength units at rangeOffset, then insert text"
ReplaceRange(text, from, to, ins) ==
    SubSeq(text, 1, from) \o ins \o SubSeq(text, to + 1, Len(text))

RECURSIVE InsertDesc(_, _)
InsertDesc(c, sorted) ==
    IF sorted = <<>> THEN <<c>>
    ELSE IF Head(sorted).rangeOffset >= c.rangeOffset
         THEN <<Head(sorted)>> \o InsertDesc(c, Tail(sorted))
         ELSE <<c>> \o sorted

\* [...changes].sort((a, b) => b.rangeOffset - a.rangeOffset)  (stable)
RECURSIVE SortDesc(_)
SortDesc(changes) ==
    IF changes = <<>> THEN <<>>
    ELSE InsertDesc(changes[Len(changes)], SortDesc(SubSeq(changes, 1, Len(changes) - 1)))

RECURSIVE ApplySeq(_, _)
ApplySeq(text, changes) ==
    IF changes = <<>> THEN text
    ELSE ApplySeq(ReplaceRange(text, Head(changes).rangeOffset,
                               Head(changes).rangeOffset + Head(changes).rangeLength,
                               Head(changes).text),
                  Tail(changes))

\* view.dispatch({changes}) throws a RangeError when a change does not lie
\* inside the document it is dispatched on.
DispatchThrows(doc, changes) ==
    \E i \in DOMAIN changes :
        changes[i].rangeOffset + changes[i].rangeLength > Len(doc)

\* document.positionAt(offset) clamps the offset to the document
positionAt(doc, offset) == IF offset > Len(doc) THEN Len(doc) ELSE offset

\* ---- messages -------------------------------------------------------------
MsgInit(text, version) == [type |-> "INIT", text |-> text, version |-> version]
MsgDocPatch(version, changes) ==
    [type |-> "DOC_PATCH", version |-> version, changes |-> changes]
MsgDocResync(text, version, reason) ==
    [type |-> "DOC_RESYNC", text |-> text, version |-> version, reason |-> reason]
MsgApplyEditResult(requestId, applied, version, error) ==
    [type |-> "APPLY_EDIT_RESULT", requestId |-> requestId, applied |-> applied,
     version |-> version, error |-> error]
MsgApplyEdit(requestId, baseVersion, changes) ==
    [type |-> "APPLY_EDIT", requestId |-> requestId, baseVersion |-> baseVersion,
     changes |-> changes]
MsgRequestDocResync == [type |-> "REQUEST_DOC_RESYNC"]
MsgRequestSelection(requestId) == [type |-> "REQUEST_SELECTION", requestId |-> requestId]
MsgSelectionResult(requestId, baseVersion, selectionFrom, selectionTo, selectedText) ==
    [type |-> "SELECTION_RESULT", requestId |-> requestId,
     baseVersion |-> baseVersion, selectionFrom |-> selectionFrom,
     selectionTo |-> selectionTo, selectedText |-> selectedText]

InitialText == <<"a">>

\* the image references a document may contain
LocalHrefs == {"img.png"}
ExternalHrefs == {"https://e/i.png", "HTTP://E/I.PNG"}
Hrefs == LocalHrefs \cup ExternalHrefs

DocumentUri == "file:///doc.md"

\* `${fromUri}::${href}`
CacheKey(fromUri, href) == <<fromUri, href>>
CacheKeys == { CacheKey(DocumentUri, h) : h \in Hrefs }

\* resolvedImageCache.get(cacheKey) === undefined
NoEntry == [kind |-> "none"]

\* the protocol state after resolveCustomTextEditor
InitProtocol ==
    /\ docText = InitialText
    /\ docVersion = 1
    /\ pendingApplyQueue = [s \in Surfaces |-> <<>>]
    /\ applyCalls = <<>>
    /\ extCount = 0
    /\ resyncSent = FALSE
    /\ applyFailed = FALSE
    /\ lastResultId = [s \in Surfaces |-> 0]
    /\ toExt = [s \in Surfaces |-> <<>>]
    /\ toWebview = [s \in Surfaces |-> <<MsgInit(InitialText, 1)>>]
    /\ hasView = [s \in Surfaces |-> FALSE]
    /\ buffer = [s \in Surfaces |-> <<>>]
    /\ lastConfirmedVersion = [s \in Surfaces |-> 0]
    /\ pendingRequestIds = [s \in Surfaces |-> <<>>]
    /\ nextRequestId = [s \in Surfaces |-> 1]
    /\ isApplyingRemote = [s \in Surfaces |-> FALSE]
    /\ banner = [s \in Surfaces |-> <<"hidden">>]

\* the empty resource cache of a fresh webview
InitCache ==
    /\ resolvedImageCache = [s \in Surfaces |-> [k \in CacheKeys |-> NoEntry]]
    /\ pendingResourceRequestIds = [s \in Surfaces |-> {}]
    /\ nextResourceId = 1
    /\ statCalls = {}
    /\ rendered = [s \in Surfaces |-> <<>>]

\* no command has been run
InitSelection == commands = <<>> /\ attachments = <<>>

\* nothing has been validated or tested for overlap
InitPure ==
    /\ validation = [verdict |-> "none"]
    /\ overlap = [result |-> "none"]
    /\ render = [state |-> "none"]
    /\ parse = [state |-> "none"]

Init ==
    /\ InitProtocol
    /\ InitCache
    /\ InitSelection
    /\ InitPure
    /\ settings = [s \in Surfaces |-> FALSE]
    /\ hostSettings = FALSE

\* ---- editing surface (src/webview/main.ts) --------------------------------

\* post(msg): vscode.postMessage
post(s, msg) == toExt' = [toExt EXCEPT ![s] = Append(@, msg)]

\* mutant: the edits already queued are not counted
baseVersionForNextEdit_ignoresQueue(lcv, queue) == lcv + 1

baseVersionForNextEdit(lcv, queue) == lcv + Len(queue)

\* the edits a user can make on a document (one change per transaction)
UserChanges(doc, chars) ==
    { <<TextChange(o, 0, <<c>>)>> : o \in 0..Len(doc), c \in chars } \cup
    { <<TextChange(o, 1, <<>>)>> : o \in 0..(Len(doc) - 1) }

\* EditorView.updateListener, called by every transaction the view has
\* dispatched, with the value isApplyingRemote has at that moment: it returns
\* at once when the document did not change or a remote patch is being
\* applied, and otherwise queues and sends the change as an APPLY_EDIT
updateListener(s, changes, applyingRemote) ==
    IF changes = <<>> \/ applyingRemote
    THEN UNCHANGED <<pendingRequestIds, nextRequestId, toExt>>
    ELSE LET requestId == nextRequestId[s]
             queue == Append(pendingRequestIds[s], requestId)
         IN /\ nextRequestId' = [nextRequestId EXCEPT ![s] = requestId + 1]
            /\ pendingRequestIds' = [pendingRequestIds EXCEPT ![s] = queue]
            /\ post(s, MsgApplyEdit(requestId,
                       baseVersionForNextEdit(lastConfirmedVersion[s], queue) - 1,
                       changes))

\* local edits made so far by all surfaces (request ids are never reused)
RECURSIVE SumIds(_)
SumIds(S) ==
    IF S = {} THEN 0
    ELSE LET s == CHOOSE x \in S : TRUE
         IN (nextRequestId[s] - 1) + SumIds(S \ {s})
LocalEditCount == SumIds(Surfaces)

\* the budget of document-changing inputs (local edits and external changes)
\* is not used up
InputLeft ==
    LocalEditCount + extCount + Len(commands) + Len(attachments) < MaxInputs

LocalEdit(s) ==
    /\ hasView[s]
    /\ LocalEditCount < MaxLocalEdits
    /\ InputLeft
    /\ \E changes \in UserChanges(buffer[s], TypedChars) :
          /\ Len(ApplySeq(buffer[s], changes)) <= MaxLen
          /\ buffer' = [buffer EXCEPT ![s] = ApplySeq(@, changes)]
          /\ updateListener(s, changes, isApplyingRemote[s])
    /\ UNCHANGED <<lastConfirmedVersion, isApplyingRemote, banner, hasView>>
    /\ UNCHANGED <<authVars, toWebview, resVars, selVars, attVars, pureVars>>

\* initEditor(text): a fresh EditorView on text
initEditor(s, text) ==
    /\ buffer' = [buffer EXCEPT ![s] = text]
    /\ hasView' = [hasView EXCEPT ![s] = TRUE]

\* mutant: the patch is merged into the buffer although edits are pending
applyDocPatch_mergesWhilePending(s, message) ==
    IF ~hasView[s]
    THEN UNCHANGED <<surfVars, toExt>>
    ELSE LET changes == SortDesc(message.changes)
         IN /\ IF DispatchThrows(buffer[s], changes)
               THEN UNCHANGED <<buffer, lastConfirmedVersion>>
               ELSE /\ buffer' = [buffer EXCEPT ![s] = ApplySeq(@, changes)]
                    /\ lastConfirmedVersion' =
                          [lastConfirmedVersion EXCEPT ![s] = message.version]
            /\ isApplyingRemote' = [isApplyingRemote EXCEPT ![s] = FALSE]
            /\ UNCHANGED <<hasView, pendingRequestIds, nextRequestId, banner, toExt>>

\* one change after the other in the order given, offsets cut to the text
RECURSIVE ApplyInOrder(_, _)
ApplyInOrder(text, changes) ==
    IF changes = <<>> THEN text
    ELSE ApplyInOrder(
            ReplaceRange(text, positionAt(text, Head(changes).rangeOffset),
                         positionAt(text, Head(changes).rangeOffset
                                              + Head(changes).rangeLength),
                         Head(changes).text),
            Tail(changes))

\* mutant: the changes are applied one after the other in the order received
applyDocPatch_unsorted(s, message) ==
    IF ~hasView[s]
    THEN UNCHANGED <<surfVars, toExt>>
    ELSE IF Len(pendingRequestIds[s]) > 0
    THEN /\ banner' = [banner EXCEPT ![s] = <<"external_change_pending_discarded">>]
         /\ pendingRequestIds' = [pendingRequestIds EXCEPT ![s] = <<>>]
         /\ post(s, MsgRequestDocResync)
         /\ UNCHANGED <<hasView, buffer, lastConfirmedVersion, nextRequestId,
                        isApplyingRemote>>
    ELSE LET changes == message.changes
         IN /\ IF DispatchThrows(buffer[s], changes)
               THEN UNCHANGED <<buffer, lastConfirmedVersion>>
               ELSE /\ buffer' = [buffer EXCEPT ![s] = ApplyInOrder(@, changes)]
                    /\ lastConfirmedVersion' =
                          [lastConfirmedVersion EXCEPT ![s] = message.version]
            /\ isApplyingRemote' = [isApplyingRemote EXCEPT ![s] = FALSE]
            /\ UNCHANGED <<hasView, pendingRequestIds, nextRequestId, banner, toExt>>

\* mutant: isApplyingRemote is not set before the patch is dispatched
applyDocPatch_flagNotSet(s, message) ==
    IF ~hasView[s]
    THEN UNCHANGED <<surfVars, toExt>>
    ELSE IF Len(pendingRequestIds[s]) > 0
    THEN /\ banner' = [banner EXCEPT ![s] = <<"external_change_pending_discarded">>]
         /\ pendingRequestIds' = [pendingRequestIds EXCEPT ![s] = <<>>]
         /\ post(s, MsgRequestDocResync)
         /\ UNCHANGED <<hasView, buffer, lastConfirmedVersion, nextRequestId,
                        isApplyingRemote>>
    ELSE LET changes == SortDesc(message.changes)
         IN /\ IF DispatchThrows(buffer[s], changes)
               THEN UNCHANGED <<buffer, lastConfirmedVersion, pendingRequestIds,
                                nextRequestId, toExt>>
               ELSE /\ buffer' = [buffer EXCEPT ![s] = ApplySeq(@, changes)]
                    /\ updateListener(s, changes, isApplyingRemote[s])
                    /\ lastConfirmedVersion' =
                          [lastConfirmedVersion EXCEPT ![s] = message.version]
            /\ isApplyingRemote' = [isApplyingRemote EXCEPT ![s] = FALSE]
            /\ UNCHANGED <<hasView, banner>>

\* applyDocPatch(message): isApplyingRemote is true while view.dispatch runs
\* (and with it the update listener), and false again in the finally block
applyDocPatch(s, message) ==
    IF ~hasView[s]
    THEN UNCHANGED <<surfVars, toExt>>
    ELSE IF Len(pendingRequestIds[s]) > 0
    THEN /\ banner' = [banner EXCEPT ![s] = <<"external_change_pending_discarded">>]
         /\ pendingRequestIds' = [pendingRequestIds EXCEPT ![s] = <<>>]
         /\ post(s, MsgRequestDocResync)
         /\ UNCHANGED <<hasView, buffer, lastConfirmedVersion, nextRequestId,
                        isApplyingRemote>>
    ELSE LET changes == SortDesc(message.changes)
         IN /\ IF DispatchThrows(buffer[s], changes)
               THEN UNCHANGED <<buffer, lastConfirmedVersion, pendingRequestIds,
                                nextRequestId, toExt>>
               ELSE /\ buffer' = [buffer EXCEPT ![s] = ApplySeq(@, changes)]
                    /\ updateListener(s, changes, TRUE)
                    /\ lastConfirmedVersion' =
                          [lastConfirmedVersion EXCEPT ![s] = message.version]
            /\ isApplyingRemote' = [isApplyingRemote EXCEPT ![s] = FALSE]
            /\ UNCHANGED <<hasView, banner>>

\* mutant: the result is taken for the head without comparing requestIds
handleApplyEditResult_noOrderCheck(s, message) ==
    IF pendingRequestIds[s] = <<>>
    THEN /\ banner' = [banner EXCEPT ![s] = <<"no_pending_request">>]
         /\ UNCHANGED <<hasView, buffer, lastConfirmedVersion, pendingRequestIds,
                        nextRequestId, isApplyingRemote, toExt>>
    ELSE IF ~message.applied
    THEN /\ banner' = [banner EXCEPT ![s] =
                       <<"not_applied",
                         IF message.error = "undefined" THEN "unknown"
                         ELSE message.error>>]
         /\ pendingRequestIds' = [pendingRequestIds EXCEPT ![s] = <<>>]
         /\ post(s, MsgRequestDocResync)
         /\ UNCHANGED <<hasView, buffer, lastConfirmedVersion, nextRequestId,
                        isApplyingRemote>>
    ELSE /\ pendingRequestIds' = [pendingRequestIds EXCEPT ![s] = Tail(@)]
         /\ lastConfirmedVersion' = [lastConfirmedVersion EXCEPT ![s] = message.version]
         /\ banner' = [banner EXCEPT ![s] =
                          IF Len(pendingRequestIds[s]) = 1 THEN <<"hidden">> ELSE @]
         /\ UNCHANGED <<hasView, buffer, nextRequestId, isApplyingRemote, toExt>>

\* mutant: a rejection whose reason is not version_mismatch only drops the
\* rejected request and keeps the rest of the queue, without a resync
handleApplyEditResult_softReject(s, message) ==
    IF pendingRequestIds[s] = <<>>
    THEN /\ banner' = [banner EXCEPT ![s] = <<"no_pending_request">>]
         /\ UNCHANGED <<hasView, buffer, lastConfirmedVersion, pendingRequestIds,
                        nextRequestId, isApplyingRemote, toExt>>
    ELSE IF Head(pendingRequestIds[s]) # message.requestId
    THEN /\ banner' = [banner EXCEPT ![s] = <<"invalid_order">>]
         /\ pendingRequestIds' = [pendingRequestIds EXCEPT ![s] = <<>>]
         /\ post(s, MsgRequestDocResync)
         /\ UNCHANGED <<hasView, buffer, lastConfirmedVersion, nextRequestId,
                        isApplyingRemote>>
    ELSE IF ~message.applied /\ message.error = "version_mismatch"
    THEN /\ banner' = [banner EXCEPT ![s] = <<"not_applied", message.error>>]
         /\ pendingRequestIds' = [pendingRequestIds EXCEPT ![s] = <<>>]
         /\ post(s, MsgRequestDocResync)
         /\ UNCHANGED <<hasView, buffer, lastConfirmedVersion, nextRequestId,
                        isApplyingRemote>>
    ELSE IF ~message.applied
    THEN /\ banner' = [banner EXCEPT ![s] =
                       <<"not_applied",
                         IF message.error = "undefined" THEN "unknown"
                         ELSE message.error>>]
         /\ pendingRequestIds' = [pendingRequestIds EXCEPT ![s] = Tail(@)]
         /\ UNCHANGED <<hasView, buffer, lastConfirmedVersion, nextRequestId,
                        isApplyingRemote, toExt>>
    ELSE /\ pendingRequestIds' = [pendingRequestIds EXCEPT ![s] = Tail(@)]
         /\ lastConfirmedVersion' = [lastConfirmedVersion EXCEPT ![s] = message.version]
         /\ banner' = [banner EXCEPT ![s] =
                          IF Len(pendingRequestIds[s]) = 1 THEN <<"hidden">> ELSE @]
         /\ UNCHANGED <<hasView, buffer, nextRequestId, isApplyingRemote, toExt>>

\* mutant: a confirmation empties the queue instead of removing its head
handleApplyEditResult_confirmClears(s, message) ==
    IF pendingRequestIds[s] = <<>>
    THEN /\ banner' = [banner EXCEPT ![s] = <<"no_pending_request">>]
         /\ UNCHANGED <<hasView, buffer, lastConfirmedVersion, pendingRequestIds,
                        nextRequestId, isApplyingRemote, toExt>>
    ELSE IF Head(pendingRequestIds[s]) # message.requestId
    THEN /\ banner' = [banner EXCEPT ![s] = <<"invalid_order">>]
         /\ pendingRequestIds' = [pendingRequestIds EXCEPT ![s] = <<>>]
         /\ post(s, MsgRequestDocResync)
         /\ UNCHANGED <<hasView, buffer, lastConfirmedVersion, nextRequestId,
                        isApplyingRemote>>
    ELSE IF ~message.applied
    THEN /\ banner' = [banner EXCEPT ![s] =
                       <<"not_applied",
                         IF message.error = "undefined" THEN "unknown"
                         ELSE message.error>>]
         /\ pendingRequestIds' = [pendingRequestIds EXCEPT ![s] = <<>>]
         /\ post(s, MsgRequestDocResync)
         /\ UNCHANGED <<hasView, buffer, lastConfirmedVersion, nextRequestId,
                        isApplyingRemote>>
    ELSE /\ pendingRequestIds' = [pendingRequestIds EXCEPT ![s] = <<>>]
         /\ lastConfirmedVersion' = [lastConfirmedVersion EXCEPT ![s] = message.version]
         /\ banner' = [banner EXCEPT ![s] = <<"hidden">>]
         /\ UNCHANGED <<hasView, buffer, nextRequestId, isApplyingRemote, toExt>>

\* mutant: a confirmation advances lastConfirmedVersion by the number of
\* queued edits instead of taking the version the authority reports
handleApplyEditResult_assumesQueueApplied(s, message) ==
    IF pendingRequestIds[s] = <<>>
    THEN /\ banner' = [banner EXCEPT ![s] = <<"no_pending_request">>]
         /\ UNCHANGED <<hasView, buffer, lastConfirmedVersion, pendingRequestIds,
                        nextRequestId, isApplyingRemote, toExt>>
    ELSE IF Head(pendingRequestIds[s]) # message.requestId
    THEN /\ banner' = [banner EXCEPT ![s] = <<"invalid_order">>]
         /\ pendingRequestIds' = [pendingRequestIds EXCEPT ![s] = <<>>]
         /\ post(s, MsgRequestDocResync)
         /\ UNCHANGED <<hasView, buffer, lastConfirmedVersion, nextRequestId,
                        isApplyingRemote>>
    ELSE IF ~message.applied
    THEN /\ banner' = [banner EXCEPT ![s] =
                       <<"not_applied",
                         IF message.error = "undefined" THEN "unknown"
                         ELSE message.error>>]
         /\ pendingRequestIds' = [pendingRequestIds EXCEPT ![s] = <<>>]
         /\ post(s, MsgRequestDocResync)
         /\ UNCHANGED <<hasView, buffer, lastConfirmedVersion, nextRequestId,
                        isApplyingRemote>>
    ELSE /\ pendingRequestIds' = [pendingRequestIds EXCEPT ![s] = Tail(@)]
         /\ lastConfirmedVersion' =
               [lastConfirmedVersion EXCEPT ![s] = @ + Len(pendingRequestIds[s])]
         /\ banner' = [banner EXCEPT ![s] =
                          IF Len(pendingRequestIds[s]) = 1 THEN <<"hidden">> ELSE @]
         /\ UNCHANGED <<hasView, buffer, nextRequestId, isApplyingRemote, toExt>>

handleApplyEditResult(s, message) ==
    IF pendingRequestIds[s] = <<>>
    THEN /\ banner' = [banner EXCEPT ![s] = <<"no_pending_request">>]
         /\ UNCHANGED <<hasView, buffer, lastConfirmedVersion, pendingRequestIds,
                        nextRequestId, isApplyingRemote, toExt>>
    ELSE IF Head(pendingRequestIds[s]) # message.requestId
    THEN /\ banner' = [banner EXCEPT ![s] = <<"invalid_order">>]
         /\ pendingRequestIds' = [pendingRequestIds EXCEPT ![s] = <<>>]
         /\ post(s, MsgRequestDocResync)
         /\ UNCHANGED <<hasView, buffer, lastConfirmedVersion, nextRequestId,
                        isApplyingRemote>>
    ELSE IF ~message.applied
    THEN /\ banner' = [banner EXCEPT ![s] =
                       <<"not_applied",
                         IF message.error = "undefined" THEN "unknown"
                         ELSE message.error>>]
         /\ pendingRequestIds' = [pendingRequestIds EXCEPT ![s] = <<>>]
         /\ post(s, MsgRequestDocResync)
         /\ UNCHANGED <<hasView, buffer, lastConfirmedVersion, nextRequestId,
                        isApplyingRemote>>
    ELSE /\ pendingRequestIds' = [pendingRequestIds EXCEPT ![s] = Tail(@)]
         /\ lastConfirmedVersion' = [lastConfirmedVersion EXCEPT ![s] = message.version]
         /\ banner' = [banner EXCEPT ![s] =
                          IF Len(pendingRequestIds[s]) = 1 THEN <<"hidden">> ELSE @]
         /\ UNCHANGED <<hasView, buffer, nextRequestId, isApplyingRemote, toExt>>

\* mutant: the resync replaces text and version but keeps the pending queue
handleDocResync_keepsQueue(s, message) ==
    /\ lastConfirmedVersion' = [lastConfirmedVersion EXCEPT ![s] = message.version]
    /\ banner' = [banner EXCEPT ![s] = <<"resynced", message.reason>>]
    /\ initEditor(s, message.text)
    /\ UNCHANGED <<pendingRequestIds, nextRequestId, isApplyingRemote, toExt>>

handleDocResync(s, message) ==
    /\ pendingRequestIds' = [pendingRequestIds EXCEPT ![s] = <<>>]
    /\ lastConfirmedVersion' = [lastConfirmedVersion EXCEPT ![s] = message.version]
    /\ banner' = [banner EXCEPT ![s] = <<"resynced", message.reason>>]
    /\ initEditor(s, message.text)
    /\ UNCHANGED <<nextRequestId, isApplyingRemote, toExt>>

handleInit(s, message) ==
    /\ lastConfirmedVersion' = [lastConfirmedVersion EXCEPT ![s] = message.version]
    /\ initEditor(s, message.text)
    /\ banner' = [banner EXCEPT ![s] = <<"hidden">>]
    /\ UNCHANGED <<pendingRequestIds, nextRequestId, isApplyingRemote, toExt>>

\* handleMessageEvent: one inbound message handled to completion
Deliver(s, type) ==
    /\ toWebview[s] # <<>>
    /\ Head(toWebview[s]).type = type
    /\ toWebview' = [toWebview EXCEPT ![s] = Tail(@)]
    /\ UNCHANGED <<authVars, resVars, selVars, attVars, pureVars>>

RecvInit(s) == Deliver(s, "INIT") /\ handleInit(s, Head(toWebview[s]))
RecvDocPatch(s) == Deliver(s, "DOC_PATCH") /\ applyDocPatch(s, Head(toWebview[s]))
RecvDocResync(s) == Deliver(s, "DOC_RESYNC") /\ handleDocResync(s, Head(toWebview[s]))
RecvApplyEditResult(s) ==
    Deliver(s, "APPLY_EDIT_RESULT") /\ handleApplyEditResult(s, Head(toWebview[s]))

\* handleMessageEvent on event.data that assertExtensionToWebviewMessage
\* rejects: the error text is shown and the handler returns
RecvInvalid(s) ==
    /\ Deliver(s, "UNKNOWN")
    /\ banner' = [banner EXCEPT ![s] = <<"invalid_message">>]
    /\ UNCHANGED <<hasView, buffer, lastConfirmedVersion, pendingRequestIds,
                   nextRequestId, isApplyingRemote, toExt>>

\* ---- document authority (src/extension/QuenchEditorProvider.ts) -----------

RemoveAt(seq, i) == SubSeq(seq, 1, i - 1) \o SubSeq(seq, i + 1, Len(seq))

\* editor.panel.webview.postMessage for a list of messages, in order
postToWebview(s, msgs) == toWebview' = [toWebview EXCEPT ![s] = @ \o msgs]

\* the replace ranges of the WorkspaceEdit built from an APPLY_EDIT:
\* changes sorted by descending offset, offsets turned into positions
WorkspaceEditOf(doc, changes) ==
    LET sorted == SortDesc(changes)
    IN [i \in DOMAIN sorted |->
          LET start == positionAt(doc, sorted[i].rangeOffset)
              end == positionAt(doc, sorted[i].rangeOffset + sorted[i].rangeLength)
          IN TextChange(start, end - start, sorted[i].text)]

\* onDidChangeDocument(editor, changes), run for every attached editor by the
\* onDidChangeTextDocument listener each of them registered
onDidChangeDocument(version, changes) ==
    /\ pendingApplyQueue' =
          [s \in Surfaces |->
              IF Len(pendingApplyQueue[s]) > 0 THEN Tail(pendingApplyQueue[s])
              ELSE pendingApplyQueue[s]]
    /\ toWebview' =
          [s \in Surfaces |->
              Append(toWebview[s],
                     IF Len(pendingApplyQueue[s]) > 0
                     THEN MsgApplyEditResult(Head(pendingApplyQueue[s]), TRUE,
                                             version, "undefined")
                     ELSE MsgDocPatch(version, changes))]
    /\ lastResultId' =
          [s \in Surfaces |->
              IF Len(pendingApplyQueue[s]) > 0 THEN Head(pendingApplyQueue[s])
              ELSE lastResultId[s]]

Receive(s, type) ==
    /\ toExt[s] # <<>>
    /\ Head(toExt[s]).type = type
    /\ toExt' = [toExt EXCEPT ![s] = Tail(@)]
    /\ UNCHANGED <<surfVars, resVars, selVars, attVars, pureVars>>

\* mutant: the resync is sent but the surface's pending tokens are kept
HandleRequestDocResync_keepsTokens(s) ==
    /\ Receive(s, "REQUEST_DOC_RESYNC")
    /\ postToWebview(s, <<MsgDocResync(docText, docVersion, "requested")>>)
    /\ resyncSent' = TRUE
    /\ UNCHANGED <<docText, docVersion, pendingApplyQueue, applyCalls, extCount,
                   applyFailed, lastResultId>>

\* handleWebviewMessage, msg.type === "REQUEST_DOC_RESYNC"
HandleRequestDocResync(s) ==
    /\ Receive(s, "REQUEST_DOC_RESYNC")
    /\ pendingApplyQueue' = [pendingApplyQueue EXCEPT ![s] = <<>>]
    /\ postToWebview(s, <<MsgDocResync(docText, docVersion, "requested")>>)
    /\ resyncSent' = TRUE
    /\ UNCHANGED <<docText, docVersion, applyCalls, extCount, applyFailed,
                   lastResultId>>

\* mutant: the edit is applied on a best-effort basis whatever its baseVersion
HandleApplyEdit_noVersionCheck(s) ==
    /\ Receive(s, "APPLY_EDIT")
    /\ LET msg == Head(toExt[s])
       IN /\ pendingApplyQueue' =
                [pendingApplyQueue EXCEPT ![s] = Append(@, msg.requestId)]
          /\ applyCalls' =
                Append(applyCalls,
                       [editor |-> s, requestId |-> msg.requestId,
                        edits |-> WorkspaceEditOf(docText, msg.changes),
                        callVersion |-> docVersion])
          /\ UNCHANGED toWebview
    /\ UNCHANGED <<docText, docVersion, extCount, histVars>>

\* handleWebviewMessage, msg.type === "APPLY_EDIT", up to the await
HandleApplyEdit(s) ==
    /\ Receive(s, "APPLY_EDIT")
    /\ LET msg == Head(toExt[s])
       IN IF docVersion # msg.baseVersion
          THEN /\ postToWebview(s,
                     <<MsgApplyEditResult(msg.requestId, FALSE, docVersion,
                                          "version_mismatch"),
                       MsgDocResync(docText, docVersion, "version_mismatch")>>)
               /\ resyncSent' = TRUE
               /\ lastResultId' = [lastResultId EXCEPT ![s] = msg.requestId]
               /\ UNCHANGED <<pendingApplyQueue, applyCalls>>
          ELSE /\ pendingApplyQueue' =
                     [pendingApplyQueue EXCEPT ![s] = Append(@, msg.requestId)]
               /\ applyCalls' =
                     Append(applyCalls,
                            [editor |-> s, requestId |-> msg.requestId,
                             edits |-> WorkspaceEditOf(docText, msg.changes),
                             callVersion |-> docVersion])
               /\ UNCHANGED <<toWebview, resyncSent, lastResultId>>
    /\ UNCHANGED <<docText, docVersion, extCount, applyFailed>>

\* vscode.workspace.applyEdit resolves true: the document changed by the edit
\* (the host applies an edit only to the document version it was made for),
\* the change notification ran, then the handler resumed with ok = true
ApplyEditOk(i) ==
    /\ applyCalls[i].callVersion = docVersion
    /\ applyCalls' = RemoveAt(applyCalls, i)
    /\ docText' = ApplySeq(docText, applyCalls[i].edits)
    /\ docVersion' = docVersion + 1
    /\ onDidChangeDocument(docVersion + 1, applyCalls[i].edits)
    /\ UNCHANGED <<extCount, resyncSent, applyFailed, toExt, surfVars, resVars, selVars, attVars, pureVars>>

\* mutant: a failed applyEdit drops the token without telling the surface
ApplyEditFail_silent(i) ==
    LET s == applyCalls[i].editor
    IN /\ applyCalls' = RemoveAt(applyCalls, i)
       /\ IF Len(pendingApplyQueue[s]) > 0
          THEN pendingApplyQueue' = [pendingApplyQueue EXCEPT ![s] = Tail(@)]
          ELSE UNCHANGED pendingApplyQueue
       /\ applyFailed' = TRUE
       /\ UNCHANGED <<toWebview, lastResultId>>
       /\ UNCHANGED <<docText, docVersion, extCount, resyncSent, toExt, surfVars,
                      resVars, selVars, attVars, pureVars>>

\* vscode.workspace.applyEdit resolves false: the handler resumes with !ok
ApplyEditFail(i) ==
    LET s == applyCalls[i].editor
    IN /\ applyCalls' = RemoveAt(applyCalls, i)
       /\ IF Len(pendingApplyQueue[s]) > 0
          THEN /\ pendingApplyQueue' = [pendingApplyQueue EXCEPT ![s] = Tail(@)]
               /\ postToWebview(s,
                     <<MsgApplyEditResult(Head(pendingApplyQueue[s]), FALSE,
                                          docVersion, "applyEdit_failed")>>)
               /\ lastResultId' =
                     [lastResultId EXCEPT ![s] = Head(pendingApplyQueue[s])]
          ELSE UNCHANGED <<pendingApplyQueue, toWebview, lastResultId>>
       /\ applyFailed' = TRUE
       /\ UNCHANGED <<docText, docVersion, extCount, resyncSent, toExt, surfVars,
                      resVars, selVars, attVars, pureVars>>

\* the content changes of a document change made outside the surfaces
\* (another editor of the host, a command): one change, or two
\* non-overlapping changes in document coordinates, reported in either order
ExternalChanges(doc) ==
    LET pairs == { p \in (0..Len(doc)) \X (0..(Len(doc) - 1)) : p[1] # p[2] }
    IN UserChanges(doc, ExternalChars) \cup
       { <<TextChange(p[1], 0, <<c>>), TextChange(p[2], 1, <<>>)>> :
             p \in pairs, c \in ExternalChars } \cup
       { <<TextChange(p[2], 1, <<>>), TextChange(p[1], 0, <<c>>)>> :
             p \in pairs, c \in ExternalChars }

ExternalChange ==
    /\ extCount < MaxExternal
    /\ InputLeft
    /\ \E changes \in ExternalChanges(docText) :
          /\ Len(ApplySeq(docText, SortDesc(changes))) <= MaxLen
          /\ docText' = ApplySeq(docText, SortDesc(changes))
          /\ docVersion' = docVersion + 1
          /\ onDidChangeDocument(docVersion + 1, changes)
    /\ extCount' = extCount + 1
    /\ UNCHANGED <<applyCalls, resyncSent, applyFailed, toExt, surfVars, resVars, selVars, attVars, pureVars>>

Next ==
    \/ \E s \in Surfaces : LocalEdit(s)
    \/ \E s \in Surfaces : RecvInit(s)
    \/ \E s \in Surfaces : RecvDocPatch(s)
    \/ \E s \in Surfaces : RecvDocResync(s)
    \/ \E s \in Surfaces : RecvApplyEditResult(s)
    \/ \E s \in Surfaces : HandleRequestDocResync(s)
    \/ \E s \in Surfaces : HandleApplyEdit(s)
    \/ \E i \in DOMAIN applyCalls : ApplyEditOk(i)
    \/ \E i \in DOMAIN applyCalls : ApplyEditFail(i)
    \/ ExternalChange

Spec == Init /\ [][Next]_vars

\* Every message posted on a channel is eventually handled by the listener
\* at its other end, and every applyEdit promise eventually settles.  The
\* user and the other editors of the host are free to stop.
Fairness ==
    /\ \A s \in Surfaces :
          /\ WF_vars(RecvInit(s))
          /\ WF_vars(RecvDocPatch(s))
          /\ WF_vars(RecvDocResync(s))
          /\ WF_vars(RecvApplyEditResult(s))
          /\ WF_vars(HandleRequestDocResync(s))
          /\ WF_vars(HandleApplyEdit(s))
    /\ WF_vars(\E i \in DOMAIN applyCalls : ApplyEditOk(i) \/ ApplyEditFail(i))

SpecLive == Spec /\ Fairness

\* ---- the surface's handlers on every well-formed inbound message ----------
\* The authority is left out: any message that passes
\* assertExtensionToWebviewMessage may arrive, and outbound messages are taken
\* off the channel unanswered, each before the surface's next event.

HandlerSurface == CHOOSE s \in Surfaces : TRUE

InboundVersions == {1, 2}

InboundChanges ==
    { <<TextChange(o, 0, <<"b">>)>> : o \in 0..MaxLen } \cup
    { <<TextChange(o, 1, <<>>)>> : o \in 0..(MaxLen - 1) } \cup
    { <<TextChange(0, 0, <<"b">>), TextChange(1, 1, <<>>)>>,
      <<TextChange(1, 1, <<>>), TextChange(0, 0, <<"b">>)>> }

InboundMessages ==
    { MsgDocPatch(v, c) : v \in InboundVersions, c \in InboundChanges } \cup
    { MsgDocResync(t, v, r) :
          t \in {<<>>, <<"a", "b">>}, v \in InboundVersions,
          r \in {"version_mismatch", "requested", "external_change"} } \cup
    { MsgApplyEditResult(r, a, v, e) :
          r \in 1..MaxLocalEdits, a \in BOOLEAN, v \in InboundVersions,
          e \in {"undefined", "version_mismatch", "applyEdit_failed", "other"} }

\* event.data that fails validation: a message of no known type
InvalidMessages == { [type |-> "UNKNOWN"] }

\* by how much a change list lengthens a text
RECURSIVE Growth(_)
Growth(changes) ==
    IF changes = <<>> THEN 0
    ELSE Len(Head(changes).text) - Head(changes).rangeLength + Growth(Tail(changes))

HostSends(s) ==
    /\ hasView[s]
    /\ toWebview[s] = <<>>
    /\ \E m \in InboundMessages \cup InvalidMessages :
          /\ m.type = "DOC_PATCH" =>
                Len(buffer[s]) + Growth(m.changes) <= MaxLen
          /\ toWebview' = [toWebview EXCEPT ![s] = <<m>>]
    /\ UNCHANGED <<authVars, surfVars, toExt, resVars, selVars, attVars, pureVars>>

HostTakes(s) ==
    /\ toExt[s] # <<>>
    /\ toExt' = [toExt EXCEPT ![s] = Tail(@)]
    /\ UNCHANGED <<authVars, surfVars, toWebview, resVars, selVars, attVars, pureVars>>

NextSurface ==
    \/ HostTakes(HandlerSurface)
    \/ /\ toExt[HandlerSurface] = <<>>
       /\ \/ LocalEdit(HandlerSurface)
          \/ RecvInit(HandlerSurface)
          \/ RecvDocPatch(HandlerSurface)
          \/ RecvDocResync(HandlerSurface)
          \/ RecvApplyEditResult(HandlerSurface)
          \/ RecvInvalid(HandlerSurface)
          \/ HostSends(HandlerSurface)

SpecSurface == Init /\ [][NextSurface]_vars

\* ---- resource cache (src/webview/main.ts, REQUEST_RESOURCE_URI) -----------
\* The image references of the buffer are kept apart from its text: a render
\* pass meets any short list of references, in document order.

\* /^https?:\/\//i.test(href)
IsExternalHref(href) == href \in ExternalHrefs

\* a field that is not present in a message
Absent == "undefined"

\* JavaScript truthiness of an optional string
Truthy(str) == str # "" /\ str # Absent

MsgRequestResourceUri(requestId, href, fromUri) ==
    [type |-> "REQUEST_RESOURCE_URI", requestId |-> requestId, href |-> href,
     fromUri |-> fromUri, kind |-> "image"]
MsgResourceUriResult(requestId, ok, uri, error) ==
    [type |-> "RESOURCE_URI_RESULT", requestId |-> requestId, ok |-> ok,
     uri |-> uri, error |-> error]

\* the lists of image references a render pass can meet
RenderLists ==
    {<<>>} \cup { <<h>> : h \in Hrefs } \cup { <<g, h>> : g \in Hrefs, h \in Hrefs }

\* the part of the surface state a render pass works on
RenderState(s) ==
    [cache |-> resolvedImageCache[s], pending |-> pendingResourceRequestIds[s],
     nextId |-> nextResourceId, out |-> <<>>]

\* requestResourceUri("image", href, fromUri) on render state st
requestResourceUri(st, href, fromUri) ==
    LET cacheKey == CacheKey(fromUri, href)
        hit == st.cache[cacheKey]
    IN IF hit.kind = "ok" THEN st
       ELSE [cache |-> [st.cache EXCEPT ![cacheKey] = [kind |-> "pending"]],
             pending |-> st.pending \cup {<<st.nextId, cacheKey>>},
             nextId |-> st.nextId + 1,
             out |-> Append(st.out, MsgRequestResourceUri(st.nextId, href, fromUri))]

\* a render pass that asks for every reference, whatever the policy
RenderImage_noPolicyCheck(st, allowExternal, href) ==
    LET cached == st.cache[CacheKey(DocumentUri, href)]
        resolved == cached.kind = "ok" /\ Truthy(cached.uri)
        error == cached.kind = "error" /\ Truthy(cached.error)
    IN IF ~resolved /\ ~error
       THEN requestResourceUri(st, href, DocumentUri)
       ELSE st

\* buildDecorations, one image span (markdown image or <img> tag)
RenderImage(st, allowExternal, href) ==
    IF IsExternalHref(href) /\ ~allowExternal THEN st
    ELSE LET cached == st.cache[CacheKey(DocumentUri, href)]
             resolved == cached.kind = "ok" /\ Truthy(cached.uri)
             error == cached.kind = "error" /\ Truthy(cached.error)
         IN IF ~resolved /\ ~error
            THEN requestResourceUri(st, href, DocumentUri)
            ELSE st

\* buildDecorations over the image spans of the document, in order
RECURSIVE RenderAll(_, _, _)
RenderAll(st, allowExternal, hrefs) ==
    IF hrefs = <<>> THEN st
    ELSE RenderAll(RenderImage(st, allowExternal, Head(hrefs)), allowExternal,
                   Tail(hrefs))

\* the surface state after a render pass that started from st
Rendered(s, st, hrefs) ==
    LET after == RenderAll(st, settings[s], hrefs)
    IN /\ after.nextId <= MaxResourceRequests + 1
       /\ resolvedImageCache' = [resolvedImageCache EXCEPT ![s] = after.cache]
       /\ pendingResourceRequestIds' =
             [pendingResourceRequestIds EXCEPT ![s] = after.pending]
       /\ nextResourceId' = after.nextId
       /\ rendered' = [rendered EXCEPT ![s] = hrefs]
       /\ toExt' = [toExt EXCEPT ![s] = @ \o after.out]

\* livePreviewPlugin.update: a render pass (document, viewport or selection
\* changed)
RenderPass(s) ==
    /\ hasView[s]
    /\ \E hrefs \in RenderLists : Rendered(s, RenderState(s), hrefs)
    /\ UNCHANGED <<authVars, surfVars, selVars, toWebview, settings, hostSettings,
                   statCalls, attVars, pureVars>>

\* editor.panel.webview.asWebviewUri(target).toString()
AsWebviewUri(href) == IF href = "img.png" THEN "webview:/img.png" ELSE "webview:/other"

\* mutant: a refused external reference is dropped without an answer
HandleRequestResourceUri_silentRefusal(s) ==
    /\ toExt[s] # <<>>
    /\ Head(toExt[s]).type = "REQUEST_RESOURCE_URI"
    /\ toExt' = [toExt EXCEPT ![s] = Tail(@)]
    /\ LET msg == Head(toExt[s])
       IN IF IsExternalHref(msg.href)
          THEN /\ IF ~hostSettings
                  THEN UNCHANGED <<authVars, toWebview>>
                  ELSE postToWebview(s,
                          <<MsgResourceUriResult(msg.requestId, TRUE, msg.href,
                                                 Absent)>>)
               /\ UNCHANGED statCalls
          ELSE \/ /\ statCalls' = statCalls \cup
                        {[editor |-> s, requestId |-> msg.requestId,
                          href |-> msg.href]}
                  /\ UNCHANGED toWebview
               \/ /\ postToWebview(s,
                        <<MsgResourceUriResult(msg.requestId, FALSE, Absent,
                                               "exception")>>)
                  /\ UNCHANGED statCalls
    /\ UNCHANGED <<authVars, surfVars, selVars, settings, hostSettings, resolvedImageCache,
                   pendingResourceRequestIds, nextResourceId, rendered, attVars, pureVars>>

\* handleWebviewMessage, msg.type === "REQUEST_RESOURCE_URI", up to the
\* await of workspace.fs.stat
HandleRequestResourceUri(s) ==
    /\ toExt[s] # <<>>
    /\ Head(toExt[s]).type = "REQUEST_RESOURCE_URI"
    /\ toExt' = [toExt EXCEPT ![s] = Tail(@)]
    /\ LET msg == Head(toExt[s])
       IN IF IsExternalHref(msg.href)
          THEN /\ postToWebview(s,
                     <<IF ~hostSettings
                       THEN MsgResourceUriResult(msg.requestId, FALSE, Absent,
                                                 "external_images_disabled")
                       ELSE MsgResourceUriResult(msg.requestId, TRUE, msg.href,
                                                 Absent)>>)
               /\ UNCHANGED statCalls
          ELSE \/ /\ statCalls' = statCalls \cup
                        {[editor |-> s, requestId |-> msg.requestId,
                          href |-> msg.href]}
                  /\ UNCHANGED toWebview
               \/ /\ postToWebview(s,
                        <<MsgResourceUriResult(msg.requestId, FALSE, Absent,
                                               "exception")>>)
                  /\ UNCHANGED statCalls
    /\ UNCHANGED <<authVars, surfVars, selVars, settings, hostSettings, resolvedImageCache,
                   pendingResourceRequestIds, nextResourceId, rendered, attVars, pureVars>>

\* workspace.fs.stat settles and the handler runs to its end: the file is
\* there, it is not, or turning it into a webview URI throws
StatSettles(call) ==
    /\ statCalls' = statCalls \ {call}
    /\ \E result \in
            { MsgResourceUriResult(call.requestId, TRUE, AsWebviewUri(call.href),
                                   Absent),
              MsgResourceUriResult(call.requestId, FALSE, Absent, "not_found"),
              MsgResourceUriResult(call.requestId, FALSE, Absent, "exception") } :
          postToWebview(call.editor, <<result>>)
    /\ UNCHANGED <<authVars, surfVars, selVars, toExt, settings, hostSettings,
                   resolvedImageCache, pendingResourceRequestIds, nextResourceId,
                   rendered, attVars, pureVars>>

\* a RESOURCE_URI_RESULT handler that sets the entry and redraws nothing
RecvResourceUriResult_noRedraw(s) ==
    /\ toWebview[s] # <<>>
    /\ Head(toWebview[s]).type = "RESOURCE_URI_RESULT"
    /\ toWebview' = [toWebview EXCEPT ![s] = Tail(@)]
    /\ LET msg == Head(toWebview[s])
           found == { p \in pendingResourceRequestIds[s] : p[1] = msg.requestId }
       IN IF found = {}
          THEN UNCHANGED <<resolvedImageCache, pendingResourceRequestIds>>
          ELSE LET cacheKey == (CHOOSE p \in found : TRUE)[2]
                   entry == IF msg.ok /\ Truthy(msg.uri)
                            THEN [kind |-> "ok", uri |-> msg.uri]
                            ELSE [kind |-> "error",
                                  error |-> IF msg.error = Absent THEN "unknown"
                                            ELSE msg.error]
               IN /\ resolvedImageCache' =
                        [resolvedImageCache EXCEPT ![s][cacheKey] = entry]
                  /\ pendingResourceRequestIds' =
                        [pendingResourceRequestIds EXCEPT ![s] = @ \ found]
    /\ UNCHANGED <<authVars, surfVars, selVars, settings, hostSettings, statCalls,
                   nextResourceId, toExt, rendered, attVars, pureVars>>

\* handleMessageEvent, case "RESOURCE_URI_RESULT", with the render pass that
\* the forceRedrawEffect transaction runs
RecvResourceUriResult(s) ==
    /\ toWebview[s] # <<>>
    /\ Head(toWebview[s]).type = "RESOURCE_URI_RESULT"
    /\ toWebview' = [toWebview EXCEPT ![s] = Tail(@)]
    /\ LET msg == Head(toWebview[s])
           found == { p \in pendingResourceRequestIds[s] : p[1] = msg.requestId }
       IN IF found = {}
          THEN UNCHANGED <<resolvedImageCache, pendingResourceRequestIds,
                           nextResourceId, toExt, rendered>>
          ELSE LET cacheKey == (CHOOSE p \in found : TRUE)[2]
                   entry == IF msg.ok /\ Truthy(msg.uri)
                            THEN [kind |-> "ok", uri |-> msg.uri]
                            ELSE [kind |-> "error",
                                  error |-> IF msg.error = Absent THEN "unknown"
                                            ELSE msg.error]
                   st == [cache |-> [resolvedImageCache[s] EXCEPT ![cacheKey] = entry],
                          pending |-> pendingResourceRequestIds[s] \ found,
                          nextId |-> nextResourceId,
                          out |-> <<>>]
               IN \E hrefs \in (IF hasView[s] THEN RenderLists ELSE {<<>>}) :
                     Rendered(s, st, hrefs)
    /\ UNCHANGED <<authVars, surfVars, selVars, settings, hostSettings, statCalls, attVars, pureVars>>

\* the settings in force: external images allowed or not, in the webview's
\* copy and in the host configuration
InitResource ==
    /\ InitProtocol
    /\ InitCache
    /\ InitSelection
    /\ InitPure
    /\ settings \in [Surfaces -> BOOLEAN]
    /\ hostSettings \in BOOLEAN

NextResource ==
    \/ RecvInit(HandlerSurface)
    \/ RenderPass(HandlerSurface)
    \/ HandleRequestResourceUri(HandlerSurface)
    \/ \E call \in statCalls : StatSettles(call)
    \/ RecvResourceUriResult(HandlerSurface)

SpecResource == InitResource /\ [][NextResource]_vars

\* Every REQUEST_RESOURCE_URI posted is eventually handled by the authority's
\* listener, every workspace.fs.stat promise eventually settles, and every
\* RESOURCE_URI_RESULT posted is eventually handled by the surface.  Render
\* passes follow the user and may stop.
FairnessResource ==
    /\ WF_vars(HandleRequestResourceUri(HandlerSurface))
    /\ WF_vars(\E call \in statCalls : StatSettles(call))
    /\ WF_vars(RecvResourceUriResult(HandlerSurface))

\* the resource steps of a surface that sends at most MaxLiveRequests
\* requests
NextResourceLive ==
    /\ NextResource
    /\ nextResourceId' <= MaxLiveRequests + 1

SpecResourceLive == InitResource /\ [][NextResourceLive]_vars /\ FairnessResource

\* The RESOURCE_URI_RESULT handler taken alone: the host answers with any of
\* the results the authority builds, for any requestId, issued or not (an
\* answer can reach a webview that never sent the request, or no longer
\* knows it), and takes the surface's requests off the channel unanswered.

InboundResults ==
    { MsgResourceUriResult(r, TRUE, u, Absent) :
          r \in 1..(MaxResourceRequests + 1),
          u \in {"webview:/img.png"} } \cup
    { MsgResourceUriResult(r, FALSE, Absent, e) :
          r \in 1..(MaxResourceRequests + 1),
          e \in {"not_found"} }

HostSendsResult(s) ==
    /\ hasView[s]
    /\ toWebview[s] = <<>>
    /\ \E m \in InboundResults : toWebview' = [toWebview EXCEPT ![s] = <<m>>]
    /\ UNCHANGED <<authVars, surfVars, toExt, resVars, selVars, attVars, pureVars>>

NextResourceSurface ==
    \/ HostTakes(HandlerSurface)
    \/ /\ toExt[HandlerSurface] = <<>>
       /\ \/ RecvInit(HandlerSurface)
          \/ RenderPass(HandlerSurface)
          \/ HostSendsResult(HandlerSurface)
          \/ RecvResourceUriResult(HandlerSurface)

SpecResourceSurface == InitResource /\ [][NextResourceSurface]_vars

\* ---- selection bridge (requestSelectionFromWebview, handleRequestSelection) -

\* view.state.selection.main of a document: from <= to
Selections(doc) == { sel \in (0..Len(doc)) \X (0..Len(doc)) : sel[1] <= sel[2] }

\* view.state.sliceDoc(from, to)
sliceDoc(doc, from, to) == SubSeq(doc, from + 1, to)

\* a command is run on the active editor: getCommandTarget and
\* requestSelectionFromWebview up to the await of the answer
CommandStarts(s) ==
    /\ Len(commands) < MaxCommands
    /\ InputLeft
    /\ commands' = Append(commands,
                          [editor |-> s, state |-> "waiting", selection |-> <<>>])
    /\ postToWebview(s, <<MsgRequestSelection(Len(commands) + 1)>>)
    /\ UNCHANGED <<authVars, surfVars, toExt, resVars, attVars, pureVars>>

handleRequestSelection(s, requestId) ==
    IF ~hasView[s]
    THEN UNCHANGED <<surfVars, toExt>>
    ELSE /\ banner' = IF Len(pendingRequestIds[s]) > 0
                      THEN [banner EXCEPT ![s] = <<"pending_edits">>]
                      ELSE banner
         /\ \E sel \in Selections(buffer[s]) :
               post(s, MsgSelectionResult(
                          requestId,
                          baseVersionForNextEdit(lastConfirmedVersion[s],
                                                 pendingRequestIds[s]),
                          sel[1], sel[2], sliceDoc(buffer[s], sel[1], sel[2])))
         /\ UNCHANGED <<hasView, buffer, lastConfirmedVersion, pendingRequestIds,
                        nextRequestId, isApplyingRemote>>

RecvRequestSelection(s) ==
    /\ Deliver(s, "REQUEST_SELECTION")
    /\ handleRequestSelection(s, Head(toWebview[s]).requestId)

\* mutant: the answer is used whatever version it was made for
requestSelectionFromWebview_noVersionCheck(s, response) ==
    /\ commands' = [commands EXCEPT ![response.requestId] =
                       [@ EXCEPT !.state = "ready",
                                 !.selection = <<response.selectionFrom,
                                                 response.selectionTo>>]]
    /\ UNCHANGED <<pendingApplyQueue, toWebview, resyncSent>>

\* requestSelectionFromWebview from the point where the awaited answer is in,
\* and getCommandTarget after it
requestSelectionFromWebview(s, response) ==
    IF docVersion # response.baseVersion
    THEN /\ pendingApplyQueue' = [pendingApplyQueue EXCEPT ![s] = <<>>]
         /\ postToWebview(s, <<MsgDocResync(docText, docVersion, "external_change")>>)
         /\ resyncSent' = TRUE
         /\ commands' = [commands EXCEPT ![response.requestId].state = "aborted"]
    ELSE /\ commands' = [commands EXCEPT ![response.requestId] =
                            [@ EXCEPT !.state = "ready",
                                      !.selection = <<response.selectionFrom,
                                                      response.selectionTo>>]]
         /\ UNCHANGED <<pendingApplyQueue, toWebview, resyncSent>>

\* mutant: the listener outlives the timeout
waitForWebviewMessage_lateAnswer(s, m) ==
    /\ m.requestId \in DOMAIN commands
    /\ commands[m.requestId].editor = s
    /\ commands[m.requestId].state \in {"waiting", "failed"}

\* waitForWebviewMessage: the listener of a request is registered, and its
\* predicate takes the message
waitForWebviewMessage(s, m) ==
    /\ m.requestId \in DOMAIN commands
    /\ commands[m.requestId].editor = s
    /\ commands[m.requestId].state = "waiting"

\* a SELECTION_RESULT reaches the listeners of the panel: handleWebviewMessage
\* does nothing with it, the listener of waitForWebviewMessage resolves
HandleSelectionResult(s) ==
    /\ toExt[s] # <<>>
    /\ Head(toExt[s]).type = "SELECTION_RESULT"
    /\ toExt' = [toExt EXCEPT ![s] = Tail(@)]
    /\ LET m == Head(toExt[s])
       IN IF waitForWebviewMessage(s, m)
          THEN requestSelectionFromWebview(s, m)
          ELSE UNCHANGED <<commands, pendingApplyQueue, toWebview, resyncSent>>
    /\ UNCHANGED <<docText, docVersion, applyCalls, extCount, applyFailed,
                   lastResultId, surfVars, resVars, attVars, pureVars>>

\* waitForWebviewMessage: the timer fires, the listener is disposed and the
\* promise rejects; the rejection leaves getCommandTarget and the command
SelectionTimeout(id) ==
    /\ commands[id].state = "waiting"
    /\ commands' = [commands EXCEPT ![id].state = "failed"]
    /\ UNCHANGED <<authVars, surfVars, toExt, toWebview, resVars, attVars, pureVars>>

\* the command goes on with the selection it got: applyReplaceByOffsets
\* replaces the selected range, or applyEdit refuses and the command throws
CommandEdits(id) ==
    /\ commands[id].state = "ready"
    /\ LET from == positionAt(docText, commands[id].selection[1])
           to == positionAt(docText, commands[id].selection[2])
       IN \/ \E c \in ExternalChars :
                /\ Len(ReplaceRange(docText, from, to, <<c>>)) <= MaxLen
                /\ docText' = ReplaceRange(docText, from, to, <<c>>)
                /\ docVersion' = docVersion + 1
                /\ onDidChangeDocument(docVersion + 1,
                                       <<TextChange(from, to - from, <<c>>)>>)
                /\ commands' = [commands EXCEPT ![id].state = "done"]
          \/ /\ commands' = [commands EXCEPT ![id].state = "error"]
             /\ UNCHANGED <<docText, docVersion, pendingApplyQueue, toWebview,
                            lastResultId>>
    /\ UNCHANGED <<applyCalls, extCount, resyncSent, applyFailed, toExt, surfVars,
                   resVars, attVars, pureVars>>

NextSelection ==
    \/ Next
    \/ \E s \in Surfaces : CommandStarts(s)
    \/ \E s \in Surfaces : RecvRequestSelection(s)
    \/ \E s \in Surfaces : HandleSelectionResult(s)
    \/ \E id \in DOMAIN commands : SelectionTimeout(id)
    \/ \E id \in DOMAIN commands : CommandEdits(id)

SpecSelection == Init /\ [][NextSelection]_vars

\* ---- attachments (paste and drop of images) ----------------------------------
\* The markdown an attachment inserts ("![](path)") is one character of the
\* model.
AttachmentChars == {"b"}

MsgCreateAttachment(requestId, baseVersion, insertFrom, insertTo) ==
    [type |-> "CREATE_ATTACHMENT", requestId |-> requestId,
     baseVersion |-> baseVersion, insertFrom |-> insertFrom, insertTo |-> insertTo]
MsgInsertImageReference(requestId, baseVersion, insertFrom, insertTo) ==
    [type |-> "INSERT_IMAGE_REFERENCE", requestId |-> requestId,
     baseVersion |-> baseVersion, insertFrom |-> insertFrom, insertTo |-> insertTo]
MsgCreateAttachmentResult(requestId, ok, error) ==
    [type |-> "CREATE_ATTACHMENT_RESULT", requestId |-> requestId, ok |-> ok,
     error |-> error]

\* the "paste" and "drop" listeners of attachDomHandlers: an image file is
\* sent as CREATE_ATTACHMENT, a dropped uri as INSERT_IMAGE_REFERENCE, to
\* replace the main selection
PasteOrDrop(s, type) ==
    /\ hasView[s]
    /\ Len(attachments) < MaxAttachments
    /\ InputLeft
    /\ \E sel \in Selections(buffer[s]) :
          LET requestId == Len(attachments) + 1
              baseVersion == baseVersionForNextEdit(lastConfirmedVersion[s],
                                                    pendingRequestIds[s])
          IN /\ attachments' =
                   Append(attachments,
                          [editor |-> s, type |-> type, state |-> "sent",
                           baseVersion |-> baseVersion,
                           insertFrom |-> sel[1], insertTo |-> sel[2],
                           callVersion |-> 0, edit |-> <<>>])
             /\ post(s, [type |-> type, requestId |-> requestId,
                         baseVersion |-> baseVersion,
                         insertFrom |-> sel[1], insertTo |-> sel[2]])
    /\ banner' = [banner EXCEPT ![s] = <<"attaching">>]
    /\ UNCHANGED <<hasView, buffer, lastConfirmedVersion, pendingRequestIds,
                   nextRequestId, isApplyingRemote>>
    /\ UNCHANGED <<authVars, toWebview, resVars, selVars, pureVars>>

\* case "CREATE_ATTACHMENT_RESULT" of the surface's message handler
RecvCreateAttachmentResult(s) ==
    /\ toWebview[s] # <<>>
    /\ Head(toWebview[s]).type = "CREATE_ATTACHMENT_RESULT"
    /\ toWebview' = [toWebview EXCEPT ![s] = Tail(@)]
    /\ banner' = [banner EXCEPT ![s] =
                     IF Head(toWebview[s]).ok THEN <<"hidden">>
                     ELSE <<"attach_failed", Head(toWebview[s]).error>>]
    /\ UNCHANGED <<hasView, buffer, lastConfirmedVersion, pendingRequestIds,
                   nextRequestId, isApplyingRemote, toExt>>
    /\ UNCHANGED <<authVars, resVars, selVars, attVars, pureVars>>

\* the catch block of both handlers for a version_mismatch
RefuseAttachment(s, requestId) ==
    /\ postToWebview(s, <<MsgCreateAttachmentResult(requestId, FALSE,
                                                    "version_mismatch"),
                          MsgDocResync(docText, docVersion, "version_mismatch")>>)
    /\ pendingApplyQueue' = [pendingApplyQueue EXCEPT ![s] = <<>>]
    /\ resyncSent' = TRUE
    /\ UNCHANGED <<docText, docVersion, applyCalls, extCount, applyFailed,
                   lastResultId>>

\* applyReplaceByOffsets up to its await: the range is taken on the document
\* as it is now and the edit is handed to vscode.workspace.applyEdit
applyReplaceByOffsets(doc, fromOffset, toOffset, text) ==
    LET start == positionAt(doc, fromOffset)
        end == positionAt(doc, toOffset)
    IN <<TextChange(start, end - start, text)>>

\* handleWebviewMessage, msg.type === "CREATE_ATTACHMENT", up to
\* `await createImageAttachment(...)`
HandleCreateAttachment(s) ==
    /\ toExt[s] # <<>>
    /\ Head(toExt[s]).type = "CREATE_ATTACHMENT"
    /\ toExt' = [toExt EXCEPT ![s] = Tail(@)]
    /\ LET msg == Head(toExt[s])
       IN IF docVersion # msg.baseVersion
          THEN /\ RefuseAttachment(s, msg.requestId)
               /\ attachments' = [attachments EXCEPT ![msg.requestId].state = "refused"]
          ELSE /\ attachments' = [attachments EXCEPT ![msg.requestId].state = "saving"]
               /\ UNCHANGED <<authVars, toWebview>>
    /\ UNCHANGED <<surfVars, resVars, selVars, pureVars>>

\* createImageAttachment resolved: the handler resumes and calls
\* applyReplaceByOffsets
AttachmentSaved(id) ==
    /\ attachments[id].state = "saving"
    /\ \E c \in AttachmentChars :
          attachments' =
              [attachments EXCEPT
                  ![id].state = "applying",
                  ![id].callVersion = docVersion,
                  ![id].edit = applyReplaceByOffsets(docText,
                                                     attachments[id].insertFrom,
                                                     attachments[id].insertTo,
                                                     <<c>>)]
    /\ UNCHANGED <<authVars, surfVars, toExt, toWebview, resVars, selVars, pureVars>>

\* handleWebviewMessage, msg.type === "INSERT_IMAGE_REFERENCE", up to the
\* await in applyReplaceByOffsets; a target outside the document's workspace
\* folder is refused
HandleInsertImageReference(s) ==
    /\ toExt[s] # <<>>
    /\ Head(toExt[s]).type = "INSERT_IMAGE_REFERENCE"
    /\ toExt' = [toExt EXCEPT ![s] = Tail(@)]
    /\ LET msg == Head(toExt[s])
       IN IF docVersion # msg.baseVersion
          THEN /\ RefuseAttachment(s, msg.requestId)
               /\ attachments' = [attachments EXCEPT ![msg.requestId].state = "refused"]
          ELSE \/ /\ attachments' = [attachments EXCEPT ![msg.requestId].state = "failed"]
                  /\ postToWebview(s, <<MsgCreateAttachmentResult(
                                            msg.requestId, FALSE,
                                            "not_same_workspace")>>)
                  /\ UNCHANGED authVars
               \/ /\ \E c \in AttachmentChars :
                        attachments' =
                            [attachments EXCEPT
                                ![msg.requestId].state = "applying",
                                ![msg.requestId].callVersion = docVersion,
                                ![msg.requestId].edit =
                                    applyReplaceByOffsets(docText, msg.insertFrom,
                                                          msg.insertTo, <<c>>)]
                  /\ UNCHANGED <<authVars, toWebview>>
    /\ UNCHANGED <<surfVars, resVars, selVars, pureVars>>

\* vscode.workspace.applyEdit of an attachment resolves true: the document
\* changed by the edit (the host applies an edit only to the document version
\* it was made for) and the change notification ran
AttachmentApplied(id) ==
    /\ attachments[id].state = "applying"
    /\ attachments[id].callVersion = docVersion
    /\ Len(ApplySeq(docText, attachments[id].edit)) <= MaxLen
    /\ docText' = ApplySeq(docText, attachments[id].edit)
    /\ docVersion' = docVersion + 1
    /\ onDidChangeDocument(docVersion + 1, attachments[id].edit)
    /\ attachments' = [attachments EXCEPT ![id].state = "applied"]
    /\ UNCHANGED <<applyCalls, extCount, resyncSent, applyFailed, toExt, surfVars,
                   resVars, selVars, pureVars>>

\* the handler resumes after `await applyEdit` and reports success
AttachmentReported(id) ==
    /\ attachments[id].state = "applied"
    /\ attachments' = [attachments EXCEPT ![id].state = "done"]
    /\ postToWebview(attachments[id].editor,
                     <<MsgCreateAttachmentResult(id, TRUE, "undefined")>>)
    /\ UNCHANGED <<authVars, surfVars, toExt, resVars, selVars, pureVars>>

\* createImageAttachment rejects, or applyEdit resolves false and
\* applyReplaceByOffsets throws: the catch block reports the error
AttachmentFails(id) ==
    /\ attachments[id].state \in {"saving", "applying"}
    /\ attachments' = [attachments EXCEPT ![id].state = "failed"]
    /\ postToWebview(attachments[id].editor,
                     <<MsgCreateAttachmentResult(
                           id, FALSE,
                           IF attachments[id].state = "saving"
                           THEN "save_failed"
                           ELSE "Failed to apply WorkspaceEdit")>>)
    /\ UNCHANGED <<authVars, surfVars, toExt, resVars, selVars, pureVars>>

NextAttachment ==
    \/ Next
    \/ \E s \in Surfaces :
          PasteOrDrop(s, "CREATE_ATTACHMENT") \/ PasteOrDrop(s, "INSERT_IMAGE_REFERENCE")
    \/ \E s \in Surfaces : RecvCreateAttachmentResult(s)
    \/ \E s \in Surfaces : HandleCreateAttachment(s)
    \/ \E s \in Surfaces : HandleInsertImageReference(s)
    \/ \E id \in DOMAIN attachments : AttachmentSaved(id)
    \/ \E id \in DOMAIN attachments : AttachmentApplied(id)
    \/ \E id \in DOMAIN attachments : AttachmentReported(id)
    \/ \E id \in DOMAIN attachments : AttachmentFails(id)

SpecAttachment == Init /\ [][NextAttachment]_vars

\* ---- message validators (src/shared/protocol.ts) ---------------------------
\* JavaScript values, as far as the validators look into them: the kind of a
\* value, the content of a string, what an array holds, which object it is.

Undefined == [kind |-> "undefined", val |-> ""]
Null == [kind |-> "null", val |-> ""]
Str(str) == [kind |-> "string", val |-> str]
Num == [kind |-> "number", val |-> ""]
Bool == [kind |-> "boolean", val |-> ""]
Obj(shape) == [kind |-> "object", val |-> shape]
Arr(elements) == [kind |-> "array", val |-> elements]
Bytes == [kind |-> "uint8array", val |-> ""]

FieldNames ==
    {"type", "message", "detail", "requestId", "baseVersion", "changes", "href",
     "fromUri", "selectionFrom", "selectionTo", "selectedText", "kind",
     "insertFrom", "insertTo", "bytes", "filenameHint", "mime", "targetUri",
     "documentUri", "text", "version", "themeKind", "settings", "cssText",
     "reason", "applied", "title", "ok", "uri", "error"}

\* an object with the given properties; a property it does not have reads as
\* undefined
Message(fields) == [kind |-> "message", val |-> fields]
Get(value, f) == IF value.kind = "message" THEN value.val[f] ELSE Undefined

typeof(value) ==
    IF value.kind \in {"undefined", "string", "number", "boolean"}
    THEN value.kind
    ELSE "object"

isRecord(value) == typeof(value) = "object" /\ value.kind # "null"

isTextChangeArray(value) ==
    value.kind = "array" /\ value.val \in {"empty", "textChanges"}

\* Array.isArray(v) && v.every((s) => typeof s === "string")
isStringArray(value) == value.kind = "array" /\ value.val \in {"empty", "strings"}

\* the checks the validators make of a field
Passes(value, check) ==
    CASE check = "string" -> typeof(value) = "string"
      [] check = "number" -> typeof(value) = "number"
      [] check = "boolean" -> typeof(value) = "boolean"
      [] check = "optString" -> value = Undefined \/ typeof(value) = "string"
      [] check = "record" -> isRecord(value)
      [] check = "strings" -> isStringArray(value)
      [] check = "textChanges" -> isTextChangeArray(value)
      [] check = "image" -> typeof(value) = "string" /\ value.val = "image"
      [] check = "bytes" -> value.kind = "uint8array"

QuenchThemeKind == {"light", "dark", "high-contrast", "high-contrast-light"}
ResyncReasons == {"version_mismatch", "requested", "external_change"}

\* the declared type of a field
HasType(value, declared) ==
    CASE declared = "string" -> value.kind = "string"
      [] declared = "number" -> value.kind = "number"
      [] declared = "boolean" -> value.kind = "boolean"
      [] declared = "optString" -> value = Undefined \/ value.kind = "string"
      [] declared = "QuenchSettings" -> value = Obj("settings")
      [] declared = "string[]" -> isStringArray(value)
      [] declared = "TextChange[]" -> isTextChangeArray(value)
      [] declared = "image" -> value = Str("image")
      [] declared = "Uint8Array" -> value.kind = "uint8array"
      [] declared = "QuenchThemeKind" ->
            value.kind = "string" /\ value.val \in QuenchThemeKind
      [] declared = "optQuenchThemeKind" ->
            value = Undefined \/ (value.kind = "string" /\ value.val \in QuenchThemeKind)
      [] declared = "reason" -> value.kind = "string" /\ value.val \in ResyncReasons

\* per message type: <<field, check made by the validator, declared type>>
WebviewToExtensionFields ==
    [WEBVIEW_READY |-> {},
     BOOT_ERROR |-> {<<"message", "string", "string">>,
                     <<"detail", "optString", "optString">>},
     REQUEST_DOC_RESYNC |-> {},
     APPLY_EDIT |-> {<<"requestId", "string", "string">>,
                     <<"baseVersion", "number", "number">>,
                     <<"changes", "textChanges", "TextChange[]">>},
     OPEN_LINK |-> {<<"href", "string", "string">>,
                    <<"fromUri", "string", "string">>},
     REQUEST_PREVIEW |-> {<<"requestId", "string", "string">>,
                          <<"href", "string", "string">>,
                          <<"fromUri", "string", "string">>},
     REQUEST_SELECTION |-> {<<"requestId", "string", "string">>},
     SELECTION_RESULT |-> {<<"requestId", "string", "string">>,
                           <<"baseVersion", "number", "number">>,
                           <<"selectionFrom", "number", "number">>,
                           <<"selectionTo", "number", "number">>,
                           <<"selectedText", "string", "string">>},
     REQUEST_RESOURCE_URI |-> {<<"requestId", "string", "string">>,
                               <<"href", "string", "string">>,
                               <<"fromUri", "string", "string">>,
                               <<"kind", "image", "image">>},
     CREATE_ATTACHMENT |-> {<<"requestId", "string", "string">>,
                            <<"baseVersion", "number", "number">>,
                            <<"fromUri", "string", "string">>,
                            <<"insertFrom", "number", "number">>,
                            <<"insertTo", "number", "number">>,
                            <<"kind", "image", "image">>,
                            <<"filenameHint", "optString", "optString">>,
                            <<"mime", "optString", "optString">>,
                            <<"bytes", "bytes", "Uint8Array">>},
     INSERT_IMAGE_REFERENCE |-> {<<"requestId", "string", "string">>,
                                 <<"baseVersion", "number", "number">>,
                                 <<"fromUri", "string", "string">>,
                                 <<"insertFrom", "number", "number">>,
                                 <<"insertTo", "number", "number">>,
                                 <<"targetUri", "string", "string">>}]

ExtensionToWebviewFields ==
    [INIT |-> {<<"documentUri", "string", "string">>,
               <<"text", "string", "string">>,
               <<"version", "number", "number">>,
               <<"themeKind", "optString", "optQuenchThemeKind">>,
               <<"settings", "record", "QuenchSettings">>,
               <<"cssText", "strings", "string[]">>},
     THEME_CHANGED |-> {<<"themeKind", "string", "QuenchThemeKind">>},
     SETTINGS_UPDATED |-> {<<"settings", "record", "QuenchSettings">>},
     REQUEST_SELECTION |-> {<<"requestId", "string", "string">>},
     CSS_UPDATED |-> {<<"cssText", "strings", "string[]">>},
     DOC_PATCH |-> {<<"version", "number", "number">>,
                    <<"changes", "textChanges", "TextChange[]">>},
     DOC_RESYNC |-> {<<"text", "string", "string">>,
                     <<"version", "number", "number">>,
                     <<"reason", "string", "reason">>},
     APPLY_EDIT_RESULT |-> {<<"requestId", "string", "string">>,
                            <<"applied", "boolean", "boolean">>,
                            <<"version", "number", "number">>,
                            <<"error", "optString", "optString">>},
     PREVIEW_RESULT |-> {<<"requestId", "string", "string">>,
                         <<"title", "string", "string">>,
                         <<"text", "string", "string">>},
     RESOURCE_URI_RESULT |-> {<<"requestId", "string", "string">>,
                              <<"ok", "boolean", "boolean">>,
                              <<"uri", "optString", "optString">>,
                              <<"error", "optString", "optString">>},
     CREATE_ATTACHMENT_RESULT |-> {<<"requestId", "string", "string">>,
                                   <<"ok", "boolean", "boolean">>,
                                   <<"error", "optString", "optString">>},
     ERROR |-> {<<"message", "string", "string">>,
                <<"detail", "optString", "optString">>}]

Rejected == [verdict |-> "rejected", returned |-> Undefined]
Accepted(message) == [verdict |-> "accepted", returned |-> message]

\* the fields of the table pass the validator's checks
ChecksPass(value, rows) == \A row \in rows : Passes(Get(value, row[1]), row[2])

\* the validator builds a new object from the type and the fields it checked
assertWebviewToExtensionMessage(value) ==
    IF ~isRecord(value) \/ typeof(Get(value, "type")) # "string" THEN Rejected
    ELSE LET type == Get(value, "type").val
         IN IF type \notin DOMAIN WebviewToExtensionFields THEN Rejected
            ELSE IF ~ChecksPass(value, WebviewToExtensionFields[type]) THEN Rejected
            ELSE Accepted(Message(
                     [f \in FieldNames |->
                         IF f = "type"
                            \/ \E row \in WebviewToExtensionFields[type] : row[1] = f
                         THEN Get(value, f)
                         ELSE Undefined]))

\* the validator returns the value it was given
assertExtensionToWebviewMessage(value) ==
    IF ~isRecord(value) \/ typeof(Get(value, "type")) # "string" THEN Rejected
    ELSE LET type == Get(value, "type").val
         IN IF type \notin DOMAIN ExtensionToWebviewFields THEN Rejected
            ELSE IF ~ChecksPass(value, ExtensionToWebviewFields[type]) THEN Rejected
            ELSE Accepted(value)

\* the values tried on the validators: values of every kind, and for every
\* message type a well-formed message and each well-formed message with one
\* field replaced by a value of any kind (undefined: the field is missing)
SampleValues ==
    {Undefined, Null, Str("x"), Str("image"), Str("requested"), Str("dark"), Num,
     Bool, Obj("settings"), Obj("empty"), Arr("empty"), Arr("strings"),
     Arr("textChanges"), Arr("numbers"), Bytes}

WellFormedValue(declared) ==
    CASE declared \in {"string", "optString"} -> Str("x")
      [] declared = "number" -> Num
      [] declared = "boolean" -> Bool
      [] declared = "QuenchSettings" -> Obj("settings")
      [] declared = "string[]" -> Arr("strings")
      [] declared = "TextChange[]" -> Arr("textChanges")
      [] declared = "image" -> Str("image")
      [] declared = "Uint8Array" -> Bytes
      [] declared \in {"QuenchThemeKind", "optQuenchThemeKind"} -> Str("dark")
      [] declared = "reason" -> Str("requested")

WellFormedMessage(type, rows) ==
    Message([f \in FieldNames |->
                IF f = "type" THEN Str(type)
                ELSE IF \E row \in rows : row[1] = f
                THEN WellFormedValue((CHOOSE row \in rows : row[1] = f)[3])
                ELSE Undefined])

MessagesOf(table) ==
    UNION { LET base == WellFormedMessage(type, table[type])
            IN {base} \cup
               { Message([base.val EXCEPT ![row[1]] = v]) :
                     row \in table[type], v \in SampleValues }
            : type \in DOMAIN table }

ValidationInputs ==
    SampleValues \cup
    { Message([f \in FieldNames |-> IF f = "type" THEN t ELSE Undefined]) :
          t \in {Undefined, Num, Str("UNKNOWN")} } \cup
    MessagesOf(WebviewToExtensionFields) \cup
    MessagesOf(ExtensionToWebviewFields)

\* handleWebviewMessage's caller hands the raw message to the validator
ValidateAtExtension ==
    /\ validation.verdict = "pending"
    /\ validation.direction = "toExtension"
    /\ LET result == assertWebviewToExtensionMessage(validation.value)
       IN validation' = [validation EXCEPT !.verdict = result.verdict,
                                           !.returned = result.returned]
    /\ UNCHANGED <<authVars, surfVars, toExt, toWebview, resVars, selVars, attVars, overlap,
                   render, parse>>

\* handleMessageEvent hands event.data to the validator
ValidateAtWebview ==
    /\ validation.verdict = "pending"
    /\ validation.direction = "toWebview"
    /\ LET result == assertExtensionToWebviewMessage(validation.value)
       IN validation' = [validation EXCEPT !.verdict = result.verdict,
                                           !.returned = result.returned]
    /\ UNCHANGED <<authVars, surfVars, toExt, toWebview, resVars, selVars, attVars, overlap,
                   render, parse>>

InitValidate ==
    /\ InitProtocol
    /\ InitCache
    /\ InitSelection
    /\ settings = [s \in Surfaces |-> FALSE]
    /\ hostSettings = FALSE
    /\ overlap = [result |-> "none"]
    /\ render = [state |-> "none"]
    /\ parse = [state |-> "none"]
    /\ validation \in { [verdict |-> "pending", returned |-> Undefined,
                         direction |-> d, value |-> v] :
                           d \in {"toExtension", "toWebview"},
                           v \in ValidationInputs }

NextValidate == ValidateAtExtension \/ ValidateAtWebview

SpecValidate == InitValidate /\ [][NextValidate]_vars

\* ---- selection-overlap test (livePreviewPlugin.buildDecorations) ------------
\* The repository holds the webview in two builds that differ in this test.

\* src/webview/main.ts: const selectionOverlaps = (from, to) =>
\*     !(to <= sel.from || from >= sel.to)
selectionOverlaps(sel, from, to) == ~(to <= sel.from \/ from >= sel.to)

\* src/unnamed/part_001: a cursor on a boundary of the span counts as inside
selectionOverlapsCursor(sel, from, to) ==
    IF sel.from = sel.to
    THEN from <= sel.from /\ sel.from <= to
    ELSE ~(to <= sel.from \/ from >= sel.to)

Builds == {"main.ts", "part_001"}

\* view.state.selection.main: from <= to
MainSelections == { sel \in [from : 0..MaxPos, to : 0..MaxPos] : sel.from <= sel.to }

\* the spans a render pass hides or replaces: from < to, inside the document
HiddenSpans == { span \in [from : 0..MaxPos, to : 0..MaxPos] : span.from < span.to }

\* buildDecorations asks whether the selection overlaps a span
TestOverlap(build) ==
    /\ overlap.result = "pending"
    /\ LET answer == IF build = "main.ts"
                     THEN selectionOverlaps(overlap.sel, overlap.span.from,
                                            overlap.span.to)
                     ELSE selectionOverlapsCursor(overlap.sel, overlap.span.from,
                                                  overlap.span.to)
       IN overlap' = [overlap EXCEPT !.result = IF answer THEN "overlaps"
                                                 ELSE "apart",
                                     !.build = build]
    /\ UNCHANGED <<authVars, surfVars, toExt, toWebview, resVars, selVars, attVars,
                   validation, render, parse>>

InitOverlap ==
    /\ InitProtocol
    /\ InitCache
    /\ InitSelection
    /\ settings = [s \in Surfaces |-> FALSE]
    /\ hostSettings = FALSE
    /\ validation = [verdict |-> "none"]
    /\ render = [state |-> "none"]
    /\ parse = [state |-> "none"]
    /\ overlap \in { [result |-> "pending", build |-> "none", sel |-> sel,
                      span |-> span] :
                        sel \in MainSelections, span \in HiddenSpans }

NextOverlap == \E build \in Builds : TestOverlap(build)

SpecOverlap == InitOverlap /\ [][NextOverlap]_vars

\* ---- a render pass of the live preview (livePreviewPlugin) --------------------
\* The longest document a render pass is given.
MaxDocLength == 7

\* settings.syntaxVisibility
SyntaxVisibility == {"smart", "always", "minimal"}

\* The constructs buildDecorations recognises on a line, each with the length
\* of the shortest text that makes it: "---", "- [ ] ", "- x", "# x",
\* "x" over "=", "`x`", "**x**", "[x](h)".
ConstructLength ==
    [hr |-> 3, task |-> 6, bullet |-> 3, heading |-> 3, setext |-> 3,
     inlineCode |-> 3, bold |-> 5, link |-> 6]

\* A view: a document of docLength characters whose only non-empty line
\* starts at offset from (empty lines before and after it) and holds one
\* construct, and the main selection.
Views ==
    { v \in [kind : DOMAIN ConstructLength, from : 0..MaxDocLength,
             docLength : 0..MaxDocLength,
             sel : [from : 0..MaxDocLength, to : 0..MaxDocLength]] :
        /\ v.from + ConstructLength[v.kind] <= v.docLength
        /\ v.sel.from <= v.sel.to
        /\ v.sel.to <= v.docLength }

\* Decoration.replace({}).range(from, to)
DecorationReplace(from, to) ==
    [type |-> "replace", from |-> from, to |-> to, spec |-> ""]
\* Decoration.widget({widget, side: 1}).range(pos)
DecorationWidget(widget, pos) ==
    [type |-> "widget", from |-> pos, to |-> pos, spec |-> widget]
\* Decoration.mark({class}).range(from, to)
DecorationMark(cls, from, to) ==
    [type |-> "mark", from |-> from, to |-> to, spec |-> cls]
\* Decoration.line({class}).range(pos)
DecorationLine(cls, pos) ==
    [type |-> "line", from |-> pos, to |-> pos, spec |-> cls]

Min(a, b) == IF a <= b THEN a ELSE b

\* const dimSyntax = (from, to) => ...: a syntax mark, dimmed by the mode
dimSyntax(mode, sel, from, to) ==
    IF from >= to
    THEN {}
    ELSE LET dim == \/ mode = "minimal"
                    \/ mode = "smart" /\ ~selectionOverlaps(sel, from, to)
         IN {DecorationMark(IF dim THEN <<"qm-syntax", "qm-syntax-dim">>
                                   ELSE <<"qm-syntax">>, from, to)}

\* const addMark = (from, to, cls) => ...
addMark(from, to, cls) ==
    IF from >= to THEN {} ELSE {DecorationMark(<<cls>>, from, to)}

\* mutant: the "always" mode shows every construct raw, so nothing is
\* replaced under it
buildDecorations_alwaysShowsRaw(view, mode) ==
    LET sel == IF mode = "always" THEN [from |-> 0, to |-> view.docLength + 1]
                                  ELSE view.sel
        from == view.from
    IN CASE view.kind = "hr" ->
              IF ~selectionOverlaps(sel, from, Min(view.docLength, from + 3 + 1))
              THEN {DecorationLine(<<"md-hr-line">>, from),
                    DecorationReplace(from, from + 3),
                    DecorationWidget("HrWidget", from)}
              ELSE {}
         [] view.kind = "task" ->
              IF ~selectionOverlaps(sel, from, Min(view.docLength, from + 6))
              THEN {DecorationReplace(from, from + 2),
                    DecorationReplace(from + 2, from + 5),
                    DecorationReplace(from + 5, from + 6),
                    DecorationWidget("TaskCheckboxWidget", from)}
              ELSE dimSyntax(mode, view.sel, from, from + 1)
                   \cup dimSyntax(mode, view.sel, from + 2, from + 3)
                   \cup dimSyntax(mode, view.sel, from + 4, from + 5)
         [] view.kind = "bullet" ->
              IF ~selectionOverlaps(sel, from, from + 2)
              THEN {DecorationReplace(from, from + 1),
                    DecorationWidget("BulletWidget", from)}
                   \cup dimSyntax(mode, view.sel, from, from + 1)
              ELSE dimSyntax(mode, view.sel, from, from + 1)
         [] view.kind = "heading" ->
              {DecorationLine(<<"md-heading-line", "md-h1">>, from)}
              \cup dimSyntax(mode, view.sel, from, from + 1)
              \cup dimSyntax(mode, view.sel, from + 1, from + 2)
              \cup addMark(from + 2, from + 3, "md-heading md-h1")
         [] view.kind = "setext" ->
              {DecorationLine(<<"md-heading-line", "md-h1">>, from)}
              \cup addMark(from, from + 1, "md-heading md-h1")
              \cup IF ~selectionOverlaps(sel, from + 2,
                                         Min(view.docLength, from + 3 + 1))
                   THEN {DecorationReplace(from + 2, from + 3)}
                   ELSE dimSyntax(mode, view.sel, from + 2, from + 3)
         [] view.kind = "inlineCode" ->
              addMark(from + 1, from + 2, "md-inline-code")
              \cup IF selectionOverlaps(sel, from, from + 3)
                   THEN dimSyntax(mode, view.sel, from, from + 1)
                        \cup dimSyntax(mode, view.sel, from + 2, from + 3)
                   ELSE {DecorationReplace(from, from + 1),
                         DecorationReplace(from + 2, from + 3)}
         [] view.kind = "bold" ->
              dimSyntax(mode, view.sel, from, from + 2)
              \cup addMark(from + 2, from + 3, "md-bold")
              \cup dimSyntax(mode, view.sel, from + 3, from + 5)
         [] view.kind = "link" ->
              dimSyntax(mode, view.sel, from, from + 1)
              \cup addMark(from + 1, from + 2, "md-link")
              \cup dimSyntax(mode, view.sel, from + 2, from + 4)
              \cup addMark(from + 4, from + 5, "md-link-destination")
              \cup dimSyntax(mode, view.sel, from + 5, from + 6)

\* buildDecorations(view): the decorations of the view's construct.  The
\* offsets are those the code computes from its regular expression matches
\* on the construct's shortest text.
buildDecorations(view, mode) ==
    LET sel == view.sel
        from == view.from
    IN CASE view.kind = "hr" ->
              \* line.from = from, line.to = from + 3; the hidden line is
              \* not examined further (continue)
              IF ~selectionOverlaps(sel, from, Min(view.docLength, from + 3 + 1))
              THEN {DecorationLine(<<"md-hr-line">>, from),
                    DecorationReplace(from, from + 3),
                    DecorationWidget("HrWidget", from)}
              ELSE {}
         [] view.kind = "task" ->
              \* markerFrom = from, bracketFrom = from + 2,
              \* bracketTo = from + 5, afterBracketTo = from + 6
              IF ~selectionOverlaps(sel, from, Min(view.docLength, from + 6))
              THEN {DecorationReplace(from, from + 2),
                    DecorationReplace(from + 2, from + 5),
                    DecorationReplace(from + 5, from + 6),
                    DecorationWidget("TaskCheckboxWidget", from)}
              ELSE dimSyntax(mode, sel, from, from + 1)
                   \cup dimSyntax(mode, sel, from + 2, from + 3)
                   \cup dimSyntax(mode, sel, from + 4, from + 5)
         [] view.kind = "bullet" ->
              \* markerFrom = from, markerTo = from + 1,
              \* markerRegionEnd = from + 2
              IF ~selectionOverlaps(sel, from, from + 2)
              THEN {DecorationReplace(from, from + 1),
                    DecorationWidget("BulletWidget", from)}
                   \cup dimSyntax(mode, sel, from, from + 1)
              ELSE dimSyntax(mode, sel, from, from + 1)
         [] view.kind = "heading" ->
              {DecorationLine(<<"md-heading-line", "md-h1">>, from)}
              \cup dimSyntax(mode, sel, from, from + 1)
              \cup dimSyntax(mode, sel, from + 1, from + 2)
              \cup addMark(from + 2, from + 3, "md-heading md-h1")
         [] view.kind = "setext" ->
              \* line.to = from + 1, next.from = from + 2, next.to = from + 3
              {DecorationLine(<<"md-heading-line", "md-h1">>, from)}
              \cup addMark(from, from + 1, "md-heading md-h1")
              \cup IF ~selectionOverlaps(sel, from + 2,
                                         Min(view.docLength, from + 3 + 1))
                   THEN {DecorationReplace(from + 2, from + 3)}
                   ELSE dimSyntax(mode, sel, from + 2, from + 3)
         [] view.kind = "inlineCode" ->
              addMark(from + 1, from + 2, "md-inline-code")
              \cup IF selectionOverlaps(sel, from, from + 3)
                   THEN dimSyntax(mode, sel, from, from + 1)
                        \cup dimSyntax(mode, sel, from + 2, from + 3)
                   ELSE {DecorationReplace(from, from + 1),
                         DecorationReplace(from + 2, from + 3)}
         [] view.kind = "bold" ->
              dimSyntax(mode, sel, from, from + 2)
              \cup addMark(from + 2, from + 3, "md-bold")
              \cup dimSyntax(mode, sel, from + 3, from + 5)
         [] view.kind = "link" ->
              \* openBracket = from, label "x", href "h"
              dimSyntax(mode, sel, from, from + 1)
              \cup addMark(from + 1, from + 2, "md-link")
              \cup dimSyntax(mode, sel, from + 2, from + 4)
              \cup addMark(from + 4, from + 5, "md-link-destination")
              \cup dimSyntax(mode, sel, from + 5, from + 6)

MsgBootError == [type |-> "BOOT_ERROR"]

\* mutant: a failure of buildDecorations is swallowed, the pass draws nothing
safeBuildDecorations_swallows(s) ==
    /\ render.state = "pending"
    /\ IF render.fails
       THEN /\ render' = [render EXCEPT !.state = "drawn"]
            /\ UNCHANGED <<banner, toExt>>
       ELSE /\ render' = [render EXCEPT
                              !.state = "drawn",
                              !.decorations = buildDecorations(render.view,
                                                               render.mode)]
            /\ UNCHANGED <<banner, toExt>>
    /\ UNCHANGED <<authVars, toWebview, hasView, buffer, lastConfirmedVersion,
                   pendingRequestIds, nextRequestId, isApplyingRemote,
                   resVars, selVars, attVars, validation, overlap, parse>>

\* safeBuildDecorations(view), called by the plugin's constructor and update:
\* try buildDecorations; on an exception showBanner, post BOOT_ERROR, throw e
safeBuildDecorations(s) ==
    /\ render.state = "pending"
    /\ IF render.fails
       THEN /\ banner' = [banner EXCEPT ![s] = <<"live_preview_error">>]
            /\ toExt' = [toExt EXCEPT ![s] = Append(@, MsgBootError)]
            /\ render' = [render EXCEPT !.state = "thrown"]
       ELSE /\ render' = [render EXCEPT
                              !.state = "drawn",
                              !.decorations = buildDecorations(render.view,
                                                               render.mode)]
            /\ UNCHANGED <<banner, toExt>>
    /\ UNCHANGED <<authVars, toWebview, hasView, buffer, lastConfirmedVersion,
                   pendingRequestIds, nextRequestId, isApplyingRemote,
                   resVars, selVars, attVars, validation, overlap, parse>>

\* a render pass is about to run on some view under some mode; whether
\* buildDecorations throws on it is not decided by the model
InitRender ==
    /\ InitProtocol
    /\ InitCache
    /\ InitSelection
    /\ settings = [s \in Surfaces |-> FALSE]
    /\ hostSettings = FALSE
    /\ validation = [verdict |-> "none"]
    /\ overlap = [result |-> "none"]
    /\ parse = [state |-> "none"]
    /\ render \in { [state |-> "pending", view |-> v, mode |-> m,
                     fails |-> f, decorations |-> {}] :
                       v \in Views, m \in SyntaxVisibility, f \in BOOLEAN }

NextRender == \E s \in Surfaces : safeBuildDecorations(s)

SpecRender == InitRender /\ [][NextRender]_vars

\* ---- block parsers of the live preview -------------------------------------------
\* A line is a sequence of one-character strings, a document a sequence of
\* lines (doc.line(n) is doc[n], doc.lines is Len(doc)).
\* The most lines of a document handed to the fence parser, and the most
\* lines that follow the two head lines of one handed to the table parser.
MaxFenceLines == 3
MaxTableRows == 3

\* \s of the regular expressions, and the characters of a language tag
\* ([A-Za-z0-9_+-]), over the alphabet of the model
\* the backtick character (not writable in a string of this language)
Backtick == "BACKTICK"
Whitespace == {" "}
LangChars == {"x", "-"}
FenceChars == {Backtick, "~"}

\* the length of the longest run of characters of chars that starts at line[i]
RECURSIVE RunLength(_, _, _)
RunLength(line, i, chars) ==
    IF i > Len(line) \/ line[i] \notin chars
    THEN 0
    ELSE 1 + RunLength(line, i + 1, chars)

NoMatch == [matched |-> FALSE]

\* /^\s*(```+|~~~+)\s*([A-Za-z0-9_+-]+)?\s*$/.exec(line): the classes of
\* the expression are disjoint, so its greedy runs are the only way to match
MatchOpenFence(line) ==
    LET ws == RunLength(line, 1, Whitespace)
        fenceChar == IF ws + 1 <= Len(line) THEN line[ws + 1] ELSE ""
        fenceLen == IF fenceChar \in FenceChars
                    THEN RunLength(line, ws + 1, {fenceChar}) ELSE 0
        afterFence == ws + fenceLen + 1
        ws2 == RunLength(line, afterFence, Whitespace)
        langLen == RunLength(line, afterFence + ws2, LangChars)
        ws3 == RunLength(line, afterFence + ws2 + langLen, Whitespace)
    IN IF fenceLen >= 3 /\ afterFence + ws2 + langLen + ws3 = Len(line) + 1
       THEN [matched |-> TRUE, fence |-> SubSeq(line, ws + 1, ws + fenceLen),
             lang |-> SubSeq(line, afterFence + ws2,
                             afterFence + ws2 + langLen - 1)]
       ELSE NoMatch

\* closeRe = /^\s*(```+|~~~+)\s*$/
MatchCloseFence(line) ==
    LET ws == RunLength(line, 1, Whitespace)
        fenceChar == IF ws + 1 <= Len(line) THEN line[ws + 1] ELSE ""
        fenceLen == IF fenceChar \in FenceChars
                    THEN RunLength(line, ws + 1, {fenceChar}) ELSE 0
        ws2 == RunLength(line, ws + fenceLen + 1, Whitespace)
    IN IF fenceLen >= 3 /\ ws + fenceLen + ws2 = Len(line)
       THEN [matched |-> TRUE, fence |-> SubSeq(line, ws + 1, ws + fenceLen)]
       ELSE NoMatch

\* return null
NoRange == [found |-> FALSE]

\* for (let ln = startLineNumber + 1; ln <= doc.lines; ln++): the first line
\* from ln on that closes the fence, -1 when there is none
RECURSIVE FindClosingFence(_, _, _, _)
FindClosingFence(doc, ln, fenceChar, fenceLen) ==
    IF ln > Len(doc)
    THEN -1
    ELSE LET cm == MatchCloseFence(doc[ln])
         IN IF ~cm.matched
            THEN FindClosingFence(doc, ln + 1, fenceChar, fenceLen)
            ELSE IF cm.fence[1] # fenceChar
            THEN FindClosingFence(doc, ln + 1, fenceChar, fenceLen)
            ELSE IF Len(cm.fence) < fenceLen
            THEN FindClosingFence(doc, ln + 1, fenceChar, fenceLen)
            ELSE ln

\* mutant: the closing fence need not be as long as the opening one
parseFencedCodeBlockRangeAtLine_anyLength(doc, startLineNumber) ==
    IF startLineNumber < 1 \/ startLineNumber > Len(doc)
    THEN NoRange
    ELSE LET m == MatchOpenFence(doc[startLineNumber])
         IN IF ~m.matched
            THEN NoRange
            ELSE LET fenceChar == IF m.fence[1] = "~" THEN "~" ELSE Backtick
                     fenceLen == Len(m.fence)
                     endLineNo == FindClosingFence(doc, startLineNumber + 1,
                                                   fenceChar, 3)
                 IN IF endLineNo < 0
                    THEN NoRange
                    ELSE [found |-> TRUE, startLineNo |-> startLineNumber,
                          endLineNo |-> endLineNo, fenceChar |-> fenceChar,
                          fenceLen |-> fenceLen, lang |-> m.lang]

\* parseFencedCodeBlockRangeAtLine(doc, startLineNumber)
parseFencedCodeBlockRangeAtLine(doc, startLineNumber) ==
    IF startLineNumber < 1 \/ startLineNumber > Len(doc)
    THEN NoRange
    ELSE LET m == MatchOpenFence(doc[startLineNumber])
         IN IF ~m.matched
            THEN NoRange
            ELSE LET fenceChar == IF m.fence[1] = "~" THEN "~" ELSE Backtick
                     fenceLen == Len(m.fence)
                     endLineNo == FindClosingFence(doc, startLineNumber + 1,
                                                   fenceChar, fenceLen)
                 IN IF endLineNo < 0
                    THEN NoRange
                    ELSE [found |-> TRUE, startLineNo |-> startLineNumber,
                          endLineNo |-> endLineNo, fenceChar |-> fenceChar,
                          fenceLen |-> fenceLen, lang |-> m.lang]

\* the lines of the documents handed to the fence parser
FenceLines ==
    { <<Backtick, Backtick, Backtick>>, <<Backtick, Backtick, Backtick, Backtick>>, <<"~", "~", "~">>,
      <<"~", "~", "~", "~">>, <<" ", Backtick, Backtick, Backtick>>, <<Backtick, Backtick, Backtick, " ">>,
      <<Backtick, Backtick, Backtick, "x">>, <<Backtick, Backtick>>, <<"x">>, <<>> }

\* the documents of up to n lines over a set of lines (a document has at
\* least one line)
DocsOver(lines, n) == UNION { [1..k -> lines] : k \in 1..n }

\* buildDecorations asks for the fenced block that starts at a line
ParseFencedCodeBlock ==
    /\ parse.state = "pending"
    /\ parse.fn = "fence"
    /\ parse' = [parse EXCEPT
                    !.state = "done",
                    !.range = parseFencedCodeBlockRangeAtLine(
                                  parse.doc, parse.startLineNumber)]
    /\ UNCHANGED <<authVars, surfVars, toExt, toWebview, resVars, selVars, attVars,
                   validation, overlap, render>>

\* String.prototype.includes for one character
Includes(line, c) == \E i \in DOMAIN line : line[i] = c

\* String.prototype.trim
trim(line) ==
    LET inner == { i \in DOMAIN line : line[i] \notin Whitespace }
    IN IF inner = {}
       THEN <<>>
       ELSE SubSeq(line, CHOOSE i \in inner : \A j \in inner : i <= j,
                         CHOOSE i \in inner : \A j \in inner : i >= j)

\* c.replace(/\s+/g, "")
RECURSIVE RemoveWhitespace(_)
RemoveWhitespace(line) ==
    IF line = <<>>
    THEN <<>>
    ELSE IF Head(line) \in Whitespace
    THEN RemoveWhitespace(Tail(line))
    ELSE <<Head(line)>> \o RemoveWhitespace(Tail(line))

\* s.split("|"): the pieces between the pipes, one more than the pipes
RECURSIVE Split(_)
Split(s) ==
    IF ~Includes(s, "|")
    THEN <<s>>
    ELSE LET i == CHOOSE i \in DOMAIN s :
                      s[i] = "|" /\ \A j \in 1..(i - 1) : s[j] # "|"
         IN <<SubSeq(s, 1, i - 1)>> \o Split(SubSeq(s, i + 1, Len(s)))

\* splitAlignRow(line)
splitAlignRow(line) ==
    LET s0 == trim(line)
        s1 == IF s0 # <<>> /\ s0[1] = "|" THEN Tail(s0) ELSE s0
        s2 == IF s1 # <<>> /\ s1[Len(s1)] = "|"
              THEN SubSeq(s1, 1, Len(s1) - 1) ELSE s1
        cells == Split(s2)
    IN [i \in DOMAIN cells |-> RemoveWhitespace(trim(cells[i]))]

\* alignPattern = /^:?-{3,}:?$/
alignPattern(c) ==
    LET left == IF c # <<>> /\ c[1] = ":" THEN 1 ELSE 0
        dashes == RunLength(c, left + 1, {"-"})
        right == IF left + dashes + 1 <= Len(c) /\ c[left + dashes + 1] = ":"
                 THEN 1 ELSE 0
    IN dashes >= 3 /\ left + dashes + right = Len(c)

\* for (let ln = alignLineNo + 1; ln <= doc.lines; ln++): the last line of
\* the run of non-blank lines with a pipe that starts at ln (endLineNo
\* when the run is empty)
RECURSIVE TableEnd(_, _, _)
TableEnd(doc, ln, endLineNo) ==
    IF ln > Len(doc)
    THEN endLineNo
    ELSE LET t == trim(doc[ln])
         IN IF Len(t) = 0
            THEN endLineNo
            ELSE IF ~Includes(t, "|")
            THEN endLineNo
            ELSE TableEnd(doc, ln + 1, ln)

\* mutant: the cells of the second line are not matched against the pattern
parseGfmTableRangeAtLine_anyCells(doc, startLineNumber) ==
    IF startLineNumber < 1 \/ startLineNumber > Len(doc)
    THEN NoRange
    ELSE LET alignLineNo == startLineNumber + 1
         IN IF alignLineNo > Len(doc)
            THEN NoRange
            ELSE IF ~Includes(doc[startLineNumber], "|")
            THEN NoRange
            ELSE IF ~Includes(doc[alignLineNo], "|")
            THEN NoRange
            ELSE [found |-> TRUE, headerLineNo |-> startLineNumber,
                  alignLineNo |-> alignLineNo,
                  endLineNo |-> TableEnd(doc, alignLineNo + 1, alignLineNo)]

\* parseGfmTableRangeAtLine(doc, startLineNumber)
parseGfmTableRangeAtLine(doc, startLineNumber) ==
    IF startLineNumber < 1 \/ startLineNumber > Len(doc)
    THEN NoRange
    ELSE LET alignLineNo == startLineNumber + 1
         IN IF alignLineNo > Len(doc)
            THEN NoRange
            ELSE IF ~Includes(doc[startLineNumber], "|")
            THEN NoRange
            ELSE IF ~Includes(doc[alignLineNo], "|")
            THEN NoRange
            ELSE LET alignCells == splitAlignRow(doc[alignLineNo])
                 IN IF Len(alignCells) = 0
                    THEN NoRange
                    ELSE IF ~(\A i \in DOMAIN alignCells :
                                  alignPattern(alignCells[i]))
                    THEN NoRange
                    ELSE [found |-> TRUE, headerLineNo |-> startLineNumber,
                          alignLineNo |-> alignLineNo,
                          endLineNo |-> TableEnd(doc, alignLineNo + 1,
                                                 alignLineNo)]

\* the lines the first two lines of a document handed to the table parser
\* are drawn from, and the lines that follow them
TableHeadLines ==
    { <<"|", "x", "|">>, <<"x">>, <<>>, <<"|">>,
      <<"|", "-", "-", "-", "|">>, <<"|", "-", "-", "|">>,
      <<":", "-", "-", "-", ":", "|", "-", "-", "-">>,
      <<" ", "|", "-", " ", "-", "-", "|", " ">>,
      <<"|", "-", "-", "-", "|", "x">>, <<"-", "-", "-">>,
      <<"|", "|", "-", "-", "-">> }
TableRowLines == { <<"|", "x", "|">>, <<"x">>, <<" ">> }

TableDocs ==
    UNION { { head \o rows : head \in DocsOver(TableHeadLines, 2),
                             rows \in {<<>>} \cup DocsOver(TableRowLines, n) } :
            n \in 1..MaxTableRows }

\* buildDecorations asks for the table that starts at a line
ParseGfmTable ==
    /\ parse.state = "pending"
    /\ parse.fn = "table"
    /\ parse' = [parse EXCEPT
                    !.state = "done",
                    !.range = parseGfmTableRangeAtLine(parse.doc,
                                                       parse.startLineNumber)]
    /\ UNCHANGED <<authVars, surfVars, toExt, toWebview, resVars, selVars, attVars,
                   validation, overlap, render>>

\* a block parser is about to be asked about a line of a document
InitParse ==
    /\ InitProtocol
    /\ InitCache
    /\ InitSelection
    /\ settings = [s \in Surfaces |-> FALSE]
    /\ hostSettings = FALSE
    /\ validation = [verdict |-> "none"]
    /\ overlap = [result |-> "none"]
    /\ render = [state |-> "none"]
    /\ parse \in { [state |-> "pending", fn |-> "fence", doc |-> doc,
                    startLineNumber |-> n, range |-> NoRange] :
                      doc \in DocsOver(FenceLines, MaxFenceLines),
                      n \in 1..MaxFenceLines }
                \cup { [state |-> "pending", fn |-> "table", doc |-> doc,
                        startLineNumber |-> n, range |-> NoRange] :
                          doc \in TableDocs, n \in 1..(MaxTableRows + 2) }

NextParse == ParseFencedCodeBlock \/ ParseGfmTable

SpecParse == InitParse /\ [][NextParse]_vars

\* ---- properties -----------------------------------------------------------

Last(seq) == seq[Len(seq)]

\* the surface handled the inbound message at the head of its channel
Delivered(s, type) ==
    /\ toWebview[s] # <<>>
    /\ Head(toWebview[s]).type = type
    /\ toWebview'[s] = Tail(toWebview[s])

\* the authority handled the message at the head of the surface's channel
Taken(s, type) ==
    /\ toExt[s] # <<>>
    /\ Head(toExt[s]).type = type
    /\ toExt'[s] = Tail(toExt[s])

\* the surface posted exactly one message, msg
Posted(s, msg) == toExt'[s] = Append(toExt[s], msg)

\* a step in which the applyEdit call of surface s for request r completed
OwnCallCompleted(s, r) ==
    \E i \in DOMAIN applyCalls :
        /\ applyCalls[i].editor = s
        /\ applyCalls[i].requestId = r
        /\ applyCalls' = RemoveAt(applyCalls, i)

\* C1: every APPLY_EDIT a surface sends carries baseVersion = the
\* lastConfirmedVersion at the moment of the local edit + the number of
\* requestIds already queued before this edit was enqueued.
C1_BaseVersion ==
    [][\A s \in Surfaces :
          (Len(toExt'[s]) = Len(toExt[s]) + 1 /\ Last(toExt'[s]).type = "APPLY_EDIT")
          => /\ Last(toExt'[s]).baseVersion =
                    lastConfirmedVersion[s] + Len(pendingRequestIds[s])
             /\ pendingRequestIds'[s] =
                    Append(pendingRequestIds[s], Last(toExt'[s]).requestId)]_vars

\* an edit was sent behind an unconfirmed one, after the version had moved on
C1_Witness ==
    \E s \in Surfaces :
        /\ Len(pendingRequestIds[s]) >= 2
        /\ lastConfirmedVersion[s] > 1
        /\ toExt[s] # <<>>
        /\ Last(toExt[s]).type = "APPLY_EDIT"
        /\ Last(toExt[s]).requestId = Last(pendingRequestIds[s])
        /\ Last(toExt[s]).baseVersion =
              lastConfirmedVersion[s] + Len(pendingRequestIds[s]) - 1

\* C2: a DOC_PATCH received while the pending queue is non-empty is not
\* applied: buffer and lastConfirmedVersion stay, the queue is emptied, exactly
\* one REQUEST_DOC_RESYNC is sent and the discard notice is shown.
C2_PatchWhilePending ==
    [][\A s \in Surfaces :
          (Delivered(s, "DOC_PATCH") /\ pendingRequestIds[s] # <<>>)
          => /\ buffer'[s] = buffer[s]
             /\ lastConfirmedVersion'[s] = lastConfirmedVersion[s]
             /\ pendingRequestIds'[s] = <<>>
             /\ Posted(s, MsgRequestDocResync)
             /\ banner'[s] = <<"external_change_pending_discarded">>]_vars

\* the discard notice is up, the resync request is the last message sent and
\* the buffer still holds the discarded local input
C2_Witness ==
    \E s \in Surfaces :
        /\ banner[s] = <<"external_change_pending_discarded">>
        /\ pendingRequestIds[s] = <<>>
        /\ toExt[s] # <<>>
        /\ Last(toExt[s]) = MsgRequestDocResync
        /\ buffer[s] # docText
        /\ lastConfirmedVersion[s] < docVersion

\* C3: an APPLY_EDIT whose baseVersion differs from the document version
\* changes neither text nor version, records no pending token, and is answered
\* to the requesting surface by APPLY_EDIT_RESULT{applied:false,
\* error:"version_mismatch"} followed by DOC_RESYNC{reason:"version_mismatch"}
\* with the current text and version.
C3_VersionMismatch ==
    [][\A s \in Surfaces :
          (Taken(s, "APPLY_EDIT") /\ Head(toExt[s]).baseVersion # docVersion)
          => /\ docText' = docText
             /\ docVersion' = docVersion
             /\ pendingApplyQueue' = pendingApplyQueue
             /\ applyCalls' = applyCalls
             /\ toWebview'[s] = toWebview[s] \o
                   <<MsgApplyEditResult(Head(toExt[s]).requestId, FALSE,
                                        docVersion, "version_mismatch"),
                     MsgDocResync(docText, docVersion, "version_mismatch")>>
             /\ \A t \in Surfaces \ {s} : toWebview'[t] = toWebview[t]]_vars

\* the rejection and the resync that follows it are in flight to the surface
C3_Witness ==
    \E s \in Surfaces :
        /\ Len(toWebview[s]) >= 2
        /\ Last(toWebview[s]) = MsgDocResync(docText, docVersion, "version_mismatch")
        /\ toWebview[s][Len(toWebview[s]) - 1].type = "APPLY_EDIT_RESULT"
        /\ toWebview[s][Len(toWebview[s]) - 1].error = "version_mismatch"
        /\ pendingApplyQueue[s] = <<>>

\* C4: an APPLY_EDIT_RESULT with applied=true and requestId r is sent only to
\* the surface that submitted r and only in reaction to the document change
\* produced by applying r's own changes.
C4_ConfirmOnlyOwnChange ==
    [][\A s \in Surfaces :
          (/\ Len(toWebview'[s]) = Len(toWebview[s]) + 1
           /\ Last(toWebview'[s]).type = "APPLY_EDIT_RESULT"
           /\ Last(toWebview'[s]).applied)
          => /\ OwnCallCompleted(s, Last(toWebview'[s]).requestId)
             /\ docVersion' = docVersion + 1]_vars

\* C5: every change of the document not caused by a surface's own accepted
\* APPLY_EDIT is sent to that surface as a DOC_PATCH with the new version and
\* the change list, also when the surface has an edit in flight.
C5_ForeignChangePatched ==
    [][\A s \in Surfaces :
          (/\ docVersion' # docVersion
           /\ ~ \E r \in 1..MaxLocalEdits : OwnCallCompleted(s, r))
          => /\ Len(toWebview'[s]) = Len(toWebview[s]) + 1
             /\ Last(toWebview'[s]).type = "DOC_PATCH"
             /\ Last(toWebview'[s]).version = docVersion'
             /\ ApplySeq(docText, SortDesc(Last(toWebview'[s]).changes)) = docText']_vars

\* C6: a surface is never sent a DOC_PATCH carrying the changes of an edit it
\* submitted itself.
C6_NoOwnEditAsPatch ==
    [][\A s \in Surfaces :
          (/\ docVersion' # docVersion
           /\ \E r \in 1..MaxLocalEdits : OwnCallCompleted(s, r))
          => Last(toWebview'[s]).type # "DOC_PATCH"]_vars

\* C7: an APPLY_EDIT_RESULT whose requestId differs from the head of the
\* non-empty pending queue clears the whole queue, sends REQUEST_DOC_RESYNC and
\* leaves lastConfirmedVersion unchanged, whatever its applied flag.
C7_OutOfOrderResult ==
    [][\A s \in Surfaces :
          (/\ Delivered(s, "APPLY_EDIT_RESULT")
           /\ pendingRequestIds[s] # <<>>
           /\ Head(pendingRequestIds[s]) # Head(toWebview[s]).requestId)
          => /\ pendingRequestIds'[s] = <<>>
             /\ Posted(s, MsgRequestDocResync)
             /\ lastConfirmedVersion'[s] = lastConfirmedVersion[s]
             /\ buffer'[s] = buffer[s]]_vars

\* the out-of-order notice is up and the resync request has been posted
C7_Witness ==
    \E s \in Surfaces :
        /\ banner[s] = <<"invalid_order">>
        /\ pendingRequestIds[s] = <<>>
        /\ toExt[s] = <<MsgRequestDocResync>>

\* C8: an APPLY_EDIT_RESULT with applied=false for the head of the queue,
\* whatever its error value (version_mismatch, an apply failure, an
\* unrecognised string, or none), removes that request and all other pending
\* requests, sends REQUEST_DOC_RESYNC and leaves lastConfirmedVersion unchanged.
C8_RejectedHead ==
    [][\A s \in Surfaces :
          (/\ Delivered(s, "APPLY_EDIT_RESULT")
           /\ pendingRequestIds[s] # <<>>
           /\ Head(pendingRequestIds[s]) = Head(toWebview[s]).requestId
           /\ ~Head(toWebview[s]).applied)
          => /\ pendingRequestIds'[s] = <<>>
             /\ Posted(s, MsgRequestDocResync)
             /\ lastConfirmedVersion'[s] = lastConfirmedVersion[s]]_vars

\* a rejection with an unrecognised reason has been handled
C8_Witness ==
    \E s \in Surfaces :
        /\ banner[s] = <<"not_applied", "other">>
        /\ pendingRequestIds[s] = <<>>
        /\ toExt[s] = <<MsgRequestDocResync>>

\* a rejection without a reason has been handled
C8_WitnessNoReason ==
    \E s \in Surfaces :
        /\ banner[s] = <<"not_applied", "unknown">>
        /\ pendingRequestIds[s] = <<>>
        /\ toExt[s] = <<MsgRequestDocResync>>

\* C9: an APPLY_EDIT_RESULT with applied=true for the head of the queue
\* removes exactly that head, keeps the remaining requests in order, sets
\* lastConfirmedVersion to the result's version and sends no message.
C9_ConfirmedHead ==
    [][\A s \in Surfaces :
          (/\ Delivered(s, "APPLY_EDIT_RESULT")
           /\ pendingRequestIds[s] # <<>>
           /\ Head(pendingRequestIds[s]) = Head(toWebview[s]).requestId
           /\ Head(toWebview[s]).applied)
          => /\ pendingRequestIds'[s] = Tail(pendingRequestIds[s])
             /\ lastConfirmedVersion'[s] = Head(toWebview[s]).version
             /\ toExt'[s] = toExt[s]
             /\ buffer'[s] = buffer[s]]_vars

\* a confirmation of the head is about to be handled while a second request
\* waits behind it, and it carries a version the surface does not have yet
C9_Witness ==
    \E s \in Surfaces :
        /\ Len(pendingRequestIds[s]) >= 2
        /\ toWebview[s] # <<>>
        /\ Head(toWebview[s]).type = "APPLY_EDIT_RESULT"
        /\ Head(toWebview[s]).applied
        /\ Head(toWebview[s]).requestId = Head(pendingRequestIds[s])
        /\ Head(toWebview[s]).version # lastConfirmedVersion[s]

\* every change of the list lies inside the text
InRange(text, changes) ==
    \A i \in DOMAIN changes :
        changes[i].rangeOffset + changes[i].rangeLength <= Len(text)

\* C10 as stated: a DOC_PATCH received while the pending queue is empty is
\* applied to the buffer (changes in descending rangeOffset order) and then
\* lastConfirmedVersion is set to the patch's version.
C10_PatchApplied ==
    [][\A s \in Surfaces :
          (Delivered(s, "DOC_PATCH") /\ hasView[s] /\ pendingRequestIds[s] = <<>>)
          => /\ lastConfirmedVersion'[s] = Head(toWebview[s]).version
             /\ InRange(buffer[s], Head(toWebview[s]).changes)
             /\ buffer'[s] =
                   ApplySeq(buffer[s], SortDesc(Head(toWebview[s]).changes))]_vars

\* C10 amended: with an empty pending queue, a DOC_PATCH all of whose changes
\* lie inside the buffer is applied (changes in descending rangeOffset order)
\* and lastConfirmedVersion becomes the patch's version; a DOC_PATCH with a
\* change reaching beyond the end of the buffer changes neither the buffer
\* nor lastConfirmedVersion.  No message is sent and the queue stays empty.
C10_PatchAppliedInRange ==
    [][\A s \in Surfaces :
          (Delivered(s, "DOC_PATCH") /\ hasView[s] /\ pendingRequestIds[s] = <<>>)
          => /\ IF InRange(buffer[s], Head(toWebview[s]).changes)
                THEN /\ lastConfirmedVersion'[s] = Head(toWebview[s]).version
                     /\ buffer'[s] =
                           ApplySeq(buffer[s], SortDesc(Head(toWebview[s]).changes))
                ELSE /\ lastConfirmedVersion'[s] = lastConfirmedVersion[s]
                     /\ buffer'[s] = buffer[s]
             /\ pendingRequestIds'[s] = <<>>
             /\ toExt'[s] = toExt[s]]_vars

\* a two-change patch listed in ascending offset order is about to be applied
\* to a buffer it fits on, with nothing pending
C10_Witness ==
    \E s \in Surfaces :
        /\ hasView[s]
        /\ pendingRequestIds[s] = <<>>
        /\ toWebview[s] # <<>>
        /\ Head(toWebview[s]).type = "DOC_PATCH"
        /\ Len(Head(toWebview[s]).changes) = 2
        /\ Head(toWebview[s]).changes[1].rangeOffset <
              Head(toWebview[s]).changes[2].rangeOffset
        /\ InRange(buffer[s], Head(toWebview[s]).changes)
        /\ Head(toWebview[s]).version > lastConfirmedVersion[s]

\* nothing is in flight: both channels of every surface are empty and no
\* applyEdit call is outstanding
Quiescent ==
    /\ applyCalls = <<>>
    /\ \A s \in Surfaces : toExt[s] = <<>> /\ toWebview[s] = <<>>

\* C11: in a run without a resync, once every message is delivered the
\* buffer of each surface equals the authoritative document text.
C11_RoundTrip ==
    (Quiescent /\ ~resyncSent)
    => \A s \in Surfaces : hasView[s] => buffer[s] = docText

\* C12: as long as no external change, no host apply failure and no resync
\* has occurred, every APPLY_EDIT the authority handles is accepted (its token
\* is queued, it is not answered with version_mismatch), and once nothing is
\* in flight the surface's queue is empty and lastConfirmedVersion is the
\* authority's version.
C12_BackToBackAccepted ==
    /\ [][\A s \in Surfaces :
            (/\ Taken(s, "APPLY_EDIT")
             /\ extCount = 0 /\ ~applyFailed /\ ~resyncSent)
            => /\ pendingApplyQueue'[s] =
                     Append(pendingApplyQueue[s], Head(toExt[s]).requestId)
               /\ toWebview'[s] = toWebview[s]]_vars
    /\ [](\A s \in Surfaces :
            (/\ Quiescent /\ hasView[s]
             /\ extCount = 0 /\ ~applyFailed /\ ~resyncSent)
            => /\ pendingRequestIds[s] = <<>>
               /\ lastConfirmedVersion[s] = docVersion)

\* C13: the APPLY_EDIT_RESULT messages sent to a surface follow the order in
\* which its APPLY_EDIT requests were received.  A surface numbers its
\* requests upwards and its channel is FIFO, so the requestIds of the results
\* sent to it must never go down.
C13_ResultsInRequestOrder ==
    [][\A s \in Surfaces :
          (/\ Len(toWebview'[s]) > Len(toWebview[s])
           /\ \E i \in (Len(toWebview[s]) + 1)..Len(toWebview'[s]) :
                 toWebview'[s][i].type = "APPLY_EDIT_RESULT")
          => lastResultId'[s] >= lastResultId[s]]_vars

\* C14: the authority never holds more than one pending-request token for a
\* surface.
C14_OneTokenPerSurface ==
    \A s \in Surfaces : Len(pendingApplyQueue[s]) <= 1

\* C15: every edit a surface has submitted eventually leaves its pending
\* queue, provided messages are eventually handled and applyEdit calls
\* eventually settle.
C15_EditResolved ==
    \A s \in Surfaces : \A r \in 1..MaxLocalEdits :
        (\E i \in DOMAIN pendingRequestIds[s] : pendingRequestIds[s][i] = r)
        ~> ~(\E i \in DOMAIN pendingRequestIds[s] : pendingRequestIds[s][i] = r)

\* an edit is pending on the surface while the authority holds its token and
\* waits for the host to apply it
C15_Witness ==
    \E s \in Surfaces :
        /\ pendingRequestIds[s] # <<>>
        /\ Len(pendingApplyQueue[s]) > 0
        /\ Head(pendingApplyQueue[s]) = Head(pendingRequestIds[s])
        /\ \E i \in DOMAIN applyCalls :
              applyCalls[i].requestId = Head(pendingRequestIds[s])

\* C16: when the applyEdit call made for an accepted APPLY_EDIT with
\* requestId r resolves false, the authority removes r's token, sends
\* APPLY_EDIT_RESULT{requestId: r, applied: false, error: "applyEdit_failed"}
\* and nothing else to the requesting surface, and leaves the document text
\* and version unchanged.
C16_ApplyFailure ==
    [][\A s \in Surfaces : \A r \in 1..MaxLocalEdits :
          (OwnCallCompleted(s, r) /\ docVersion' = docVersion)
          => /\ \E i \in DOMAIN pendingApplyQueue[s] :
                   /\ pendingApplyQueue[s][i] = r
                   /\ pendingApplyQueue'[s] = RemoveAt(pendingApplyQueue[s], i)
             /\ toWebview'[s] =
                   Append(toWebview[s],
                          MsgApplyEditResult(r, FALSE, docVersion, "applyEdit_failed"))
             /\ docText' = docText]_vars

\* the surface handled a message that is a protocol error: one that fails
\* validation, or an APPLY_EDIT_RESULT whose requestId is not the head of the
\* pending queue (out of order, unknown, or the queue is empty)
ProtocolError(s) ==
    \/ Delivered(s, "UNKNOWN")
    \/ /\ Delivered(s, "APPLY_EDIT_RESULT")
       /\ \/ pendingRequestIds[s] = <<>>
          \/ Head(pendingRequestIds[s]) # Head(toWebview[s]).requestId

\* C17: on every protocol error the surface empties its pending queue and
\* sends REQUEST_DOC_RESYNC.
C17_ProtocolErrorResyncs ==
    [][\A s \in Surfaces :
          ProtocolError(s)
          => /\ pendingRequestIds'[s] = <<>>
             /\ Posted(s, MsgRequestDocResync)]_vars

\* C18: once a surface is initialised its lastConfirmedVersion is a version
\* the document has had: at least the version it was opened at and at most
\* the authority's current version.
C18_ConfirmedVersionExists ==
    \A s \in Surfaces :
        hasView[s] => lastConfirmedVersion[s] \in 1..docVersion

\* the surface has caught up with a document that changed after INIT
C18_Witness ==
    \E s \in Surfaces :
        /\ hasView[s]
        /\ docVersion > 1
        /\ lastConfirmedVersion[s] = docVersion

\* C19: handling a DOC_RESYNC makes the buffer the message's text, makes
\* lastConfirmedVersion the message's version and empties the pending queue,
\* whatever they were before.
C19_ResyncReplaces ==
    [][\A s \in Surfaces :
          Delivered(s, "DOC_RESYNC")
          => /\ buffer'[s] = Head(toWebview[s]).text
             /\ lastConfirmedVersion'[s] = Head(toWebview[s]).version
             /\ pendingRequestIds'[s] = <<>>]_vars

\* a DOC_RESYNC is about to be handled by a surface whose buffer, version and
\* queue all differ from what the resync brings
C19_Witness ==
    \E s \in Surfaces :
        /\ toWebview[s] # <<>>
        /\ Head(toWebview[s]).type = "DOC_RESYNC"
        /\ buffer[s] # Head(toWebview[s]).text
        /\ lastConfirmedVersion[s] # Head(toWebview[s]).version
        /\ pendingRequestIds[s] # <<>>

\* C20: for each cache key at most one REQUEST_RESOURCE_URI is outstanding
\* (sent and not yet answered) at any time.
C20_OneRequestPerKey ==
    \A s \in Surfaces : \A k \in CacheKeys :
        Cardinality({ p \in pendingResourceRequestIds[s] : p[2] = k }) <= 1

\* the REQUEST_RESOURCE_URI messages surface s posts in a step
NewResourceRequests(s) ==
    IF Len(toExt'[s]) > Len(toExt[s])
    THEN { toExt'[s][i] : i \in (Len(toExt[s]) + 1)..Len(toExt'[s]) }
    ELSE {}

\* C21: a cache entry that is ok or error keeps its value, and no
\* REQUEST_RESOURCE_URI is sent for its key any more.
C21_ResolvedIsTerminal ==
    [][\A s \in Surfaces : \A k \in CacheKeys :
          resolvedImageCache[s][k].kind \in {"ok", "error"}
          => /\ resolvedImageCache'[s][k] = resolvedImageCache[s][k]
             /\ \A m \in NewResourceRequests(s) :
                   m.type = "REQUEST_RESOURCE_URI"
                   => CacheKey(m.fromUri, m.href) # k]_vars

\* C22: while the surface's settings do not allow external images, the surface
\* posts no REQUEST_RESOURCE_URI for an http:// or https:// reference (in any
\* letter case), and the cache entry of such a reference is never ok.
C22_NoExternalRequest ==
    /\ [][\A s \in Surfaces :
             ~settings[s]
             => \A m \in NewResourceRequests(s) :
                   m.type = "REQUEST_RESOURCE_URI" => m.href \notin ExternalHrefs]_vars
    /\ [](\A s \in Surfaces :
             ~settings[s]
             => \A h \in ExternalHrefs :
                   resolvedImageCache[s][CacheKey(DocumentUri, h)].kind # "ok")

\* a render pass met an upper-case external reference and a local one while
\* external images were not allowed, and asked for the local one only
C22_Witness ==
    \E s \in Surfaces :
        /\ ~settings[s]
        /\ rendered[s] = <<"HTTP://E/I.PNG", "img.png">>
        /\ resolvedImageCache[s][CacheKey(DocumentUri, "HTTP://E/I.PNG")].kind = "none"
        /\ resolvedImageCache[s][CacheKey(DocumentUri, "img.png")].kind = "pending"

\* the external references a render pass of surface s met in this step
MetExternal(s) ==
    IF rendered'[s] # rendered[s]
    THEN { rendered'[s][i] : i \in DOMAIN rendered'[s] } \cap ExternalHrefs
    ELSE {}

\* C23: when a render pass meets an external image reference while external
\* images are not allowed, the cache entry of that reference is set to the
\* error state.
C23_ExternalMarkedError ==
    [][\A s \in Surfaces :
          ~settings[s]
          => \A h \in MetExternal(s) :
                resolvedImageCache'[s][CacheKey(DocumentUri, h)].kind = "error"]_vars

\* the RESOURCE_URI_RESULT that surface s handles in this step
ResultHandled(s) ==
    /\ toWebview[s] # <<>>
    /\ Head(toWebview[s]).type = "RESOURCE_URI_RESULT"
    /\ toWebview'[s] = Tail(toWebview[s])

\* the state of surface s after this step is what a render pass over hrefs
\* makes of the state st
RedrawnFrom(s, st, hrefs) ==
    LET after == RenderAll(st, settings[s], hrefs)
    IN /\ rendered'[s] = hrefs
       /\ resolvedImageCache'[s] = after.cache
       /\ pendingResourceRequestIds'[s] = after.pending
       /\ toExt'[s] = toExt[s] \o after.out

\* C24: a RESOURCE_URI_RESULT whose requestId is outstanding leaves the
\* request's cache entry ok (ok true and a uri present) or error (otherwise),
\* removes the outstanding request, and runs a render pass on the cache so
\* updated; one whose requestId is unknown changes neither the cache nor the
\* outstanding requests.
C24_ResultHandled ==
    [][\A s \in Surfaces :
          ResultHandled(s)
          => LET msg == Head(toWebview[s])
                 found == { p \in pendingResourceRequestIds[s] :
                                p[1] = msg.requestId }
             IN IF found = {}
                THEN /\ resolvedImageCache'[s] = resolvedImageCache[s]
                     /\ pendingResourceRequestIds'[s] = pendingResourceRequestIds[s]
                ELSE \A p \in found :
                        /\ resolvedImageCache'[s][p[2]].kind =
                              (IF msg.ok /\ Truthy(msg.uri) THEN "ok" ELSE "error")
                        /\ p \notin pendingResourceRequestIds'[s]
                        /\ \E hrefs \in RenderLists :
                              RedrawnFrom(s,
                                  [cache |-> [resolvedImageCache[s] EXCEPT ![p[2]] =
                                                 resolvedImageCache'[s][p[2]]],
                                   pending |-> pendingResourceRequestIds[s] \ {p},
                                   nextId |-> nextResourceId,
                                   out |-> <<>>],
                                  hrefs)]_vars

\* an answer was handled and the forced render pass asked again for the
\* other reference, still pending
C24_Witness ==
    \E s \in Surfaces :
        /\ resolvedImageCache[s][CacheKey(DocumentUri, "img.png")].kind = "error"
        /\ resolvedImageCache[s][CacheKey(DocumentUri, "https://e/i.png")].kind
              = "pending"
        /\ Cardinality(pendingResourceRequestIds[s]) = 2
        /\ nextResourceId = 4
        /\ toWebview[s] = <<>>

\* surface s' authority takes the SELECTION_RESULT at the head of the channel
\* in this step
SelectionResultTaken(s) ==
    /\ toExt[s] # <<>>
    /\ Head(toExt[s]).type = "SELECTION_RESULT"
    /\ toExt'[s] = Tail(toExt[s])

\* the command that asked for the answer m is in the given state
AskedBy(m, state) ==
    /\ m.requestId \in DOMAIN commands
    /\ commands[m.requestId].state = state

\* C25: when the awaited SELECTION_RESULT carries a baseVersion other than the
\* document's current version, the command is aborted, the document is not
\* edited in that step nor later by this command, and a DOC_RESYNC with the
\* current text and version is posted to the surface.
C25_StaleSelectionAborts ==
    /\ [][\A s \in Surfaces :
             (/\ SelectionResultTaken(s)
              /\ AskedBy(Head(toExt[s]), "waiting")
              /\ Head(toExt[s]).baseVersion # docVersion)
             => /\ commands'[Head(toExt[s]).requestId].state = "aborted"
                /\ docText' = docText
                /\ docVersion' = docVersion
                /\ Len(toWebview'[s]) = Len(toWebview[s]) + 1
                /\ LET sent == Last(toWebview'[s])
                   IN /\ sent.type = "DOC_RESYNC"
                      /\ sent.text = docText
                      /\ sent.version = docVersion]_vars
    /\ [][\A id \in DOMAIN commands :
             commands[id].state = "aborted" => commands'[id] = commands[id]]_vars

\* a command was aborted and its DOC_RESYNC is on the way to the surface
C25_Witness ==
    \E s \in Surfaces :
        /\ commands # <<>>
        /\ commands[1].state = "aborted"
        /\ toWebview[s] # <<>>
        /\ Last(toWebview[s]).type = "DOC_RESYNC"
        /\ Last(toWebview[s]).reason = "external_change"

\* C26: a waiting selection request that ends without an answer being taken
\* has failed; a failed command stays failed and so never edits the document;
\* a SELECTION_RESULT taken after the failure changes nothing.
C26_TimeoutFails ==
    /\ [][\A id \in DOMAIN commands :
             (/\ commands[id].state = "waiting"
              /\ commands'[id].state # "waiting"
              /\ toExt' = toExt)
             => /\ commands'[id].state = "failed"
                /\ docText' = docText
                /\ docVersion' = docVersion]_vars
    /\ [][\A id \in DOMAIN commands :
             commands[id].state = "failed" => commands'[id] = commands[id]]_vars
    /\ [][\A s \in Surfaces :
             (SelectionResultTaken(s) /\ AskedBy(Head(toExt[s]), "failed"))
             => UNCHANGED <<commands, docText, docVersion, pendingApplyQueue,
                            toWebview>>]_vars

\* the request timed out, the surface has answered it all the same, and the
\* late answer has been taken off the channel
C26_Witness ==
    \E s \in Surfaces :
        /\ commands # <<>>
        /\ commands[1].state = "failed"
        /\ hasView[s]
        /\ toWebview[s] = <<>>
        /\ toExt[s] = <<>>
        /\ docText = InitialText

\* surface s handles the REQUEST_SELECTION at the head of the channel in this
\* step
SelectionRequestHandled(s) ==
    /\ toWebview[s] # <<>>
    /\ Head(toWebview[s]).type = "REQUEST_SELECTION"
    /\ toWebview'[s] = Tail(toWebview[s])

\* the answer has something to say besides the fields of a plain answer
MarkedStale(m) == DOMAIN m # DOMAIN MsgSelectionResult(0, 0, 0, 0, <<>>)

\* C27: the surface answers a REQUEST_SELECTION with exactly one
\* SELECTION_RESULT of the same requestId, also when its pending queue is not
\* empty; the answer is then marked as possibly stale; the pending queue, the
\* buffer and lastConfirmedVersion stay as they were.
C27_SelectionAnswered ==
    [][\A s \in Surfaces :
          SelectionRequestHandled(s)
          => /\ Len(toExt'[s]) = Len(toExt[s]) + 1
             /\ SubSeq(toExt'[s], 1, Len(toExt[s])) = toExt[s]
             /\ Last(toExt'[s]).type = "SELECTION_RESULT"
             /\ Last(toExt'[s]).requestId = Head(toWebview[s]).requestId
             /\ Len(pendingRequestIds[s]) > 0 => MarkedStale(Last(toExt'[s]))
             /\ pendingRequestIds'[s] = pendingRequestIds[s]
             /\ buffer'[s] = buffer[s]
             /\ lastConfirmedVersion'[s] = lastConfirmedVersion[s]]_vars

\* the value is a message of the direction as the protocol declares it
WellTyped(direction, value) ==
    LET table == IF direction = "toExtension" THEN WebviewToExtensionFields
                 ELSE ExtensionToWebviewFields
    IN /\ value.kind = "message"
       /\ Get(value, "type").kind = "string"
       /\ Get(value, "type").val \in DOMAIN table
       /\ \A row \in table[Get(value, "type").val] :
             HasType(Get(value, row[1]), row[3])

\* C28: a validator accepts a value exactly when it is an object whose type is
\* a message type of the direction and whose fields have their declared types;
\* what it returns has the fields of the value as they were given, and a
\* missing field stays missing.
C28_ValidatorsStructural ==
    validation.verdict \in {"accepted", "rejected"}
    => /\ validation.verdict = "accepted"
             <=> WellTyped(validation.direction, validation.value)
       /\ validation.verdict = "accepted"
             => \A f \in FieldNames :
                   /\ Get(validation.value, f) = Undefined
                         => Get(validation.returned, f) = Undefined
                   /\ Get(validation.returned, f) # Undefined
                         => Get(validation.returned, f) = Get(validation.value, f)

\* C29: the surface-side validator accepts a DOC_RESYNC only with one of the
\* reasons version_mismatch, requested, external_change.
C29_ResyncReasonChecked ==
    (/\ validation.verdict = "accepted"
     /\ validation.direction = "toWebview"
     /\ Get(validation.value, "type") = Str("DOC_RESYNC"))
    => Get(validation.value, "reason").val \in ResyncReasons

\* C30: for a span that a render pass would hide or replace and a zero-width
\* selection on one of its two boundaries, the selection-overlap test answers
\* that they overlap.
C30_CursorAtBoundary ==
    (/\ overlap.result \in {"overlaps", "apart"}
     /\ overlap.sel.from = overlap.sel.to
     /\ overlap.sel.from \in {overlap.span.from, overlap.span.to})
    => overlap.result = "overlaps"

\* the replace and widget decorations of a set of decorations
ReplacesAndWidgets(decorations) ==
    { d \in decorations : d.type \in {"replace", "widget"} }

\* a decoration without the dim class
Undimmed(d) ==
    [d EXCEPT !.spec = IF d.type = "mark" /\ d.spec = <<"qm-syntax", "qm-syntax-dim">>
                       THEN <<"qm-syntax">> ELSE @]

C34_FailureReportedThenThrown ==
    /\ (render.state \in {"drawn", "thrown"} /\ render.fails)
       => render.state = "thrown"
    /\ render.state = "thrown"
       => /\ render.fails
          /\ \A s \in Surfaces :
                /\ banner[s] = <<"live_preview_error">>
                /\ toExt[s] # <<>>
                /\ Last(toExt[s]) = MsgBootError

\* a pass failed and re-threw
C34_Witness ==
    /\ render.state = "thrown"
    /\ \E s \in Surfaces : toExt[s] = <<MsgBootError>>

\* a line that opens a fence of n characters c: whitespace, the run, then
\* whitespace, an optional language tag and whitespace up to the end
OpensFence(line, c, n) ==
    \E a, b, l \in 0..Len(line) :
        /\ a + n + b + l <= Len(line)
        /\ \A i \in 1..a : line[i] \in Whitespace
        /\ \A i \in (a + 1)..(a + n) : line[i] = c
        /\ \A i \in (a + n + 1)..(a + n + b) : line[i] \in Whitespace
        /\ \A i \in (a + n + b + 1)..(a + n + b + l) : line[i] \in LangChars
        /\ \A i \in (a + n + b + l + 1)..Len(line) : line[i] \in Whitespace

\* a line that is nothing but a run of at least n characters c
BareFenceRun(line, c, n) ==
    Len(line) >= n /\ \A i \in DOMAIN line : line[i] = c

\* a line that is a run of at least n characters c with nothing but
\* whitespace around it
PaddedFenceRun(line, c, n) == BareFenceRun(RemoveWhitespace(trim(line)), c, n)
                              /\ trim(line) = RemoveWhitespace(line)

\* the block the fence parser detected is the one that ends at the first
\* line after the opening one that satisfies Closes
FenceEndsAtFirst(Closes(_, _, _)) ==
    (parse.state = "done" /\ parse.fn = "fence"
        /\ parse.startLineNumber <= Len(parse.doc))
    => \A c \in FenceChars, n \in 3..8 :
          OpensFence(parse.doc[parse.startLineNumber], c, n)
          => LET closers == { k \in (parse.startLineNumber + 1)..Len(parse.doc) :
                                Closes(parse.doc[k], c, n) }
             IN IF closers = {}
                THEN ~parse.range.found
                ELSE /\ parse.range.found
                     /\ parse.range.endLineNo \in closers
                     /\ \A k \in closers : parse.range.endLineNo <= k

\* C32 as stated: the block ends at the first later line that consists only
\* of a run of at least n of the opening fence's character, and no block is
\* detected without such a line.
C32_EndsAtFirstBareFence == FenceEndsAtFirst(BareFenceRun)

\* C32 amended: the closing line may have whitespace around its run.
C32_EndsAtFirstPaddedFence == FenceEndsAtFirst(PaddedFenceRun)

\* a block was detected that skipped a fence of the other character or a
\* shorter one
C32_Witness ==
    /\ parse.state = "done"
    /\ parse.fn = "fence"
    /\ parse.range.found
    /\ parse.range.endLineNo = parse.range.startLineNo + 2
    /\ MatchCloseFence(parse.doc[parse.range.startLineNo + 1]).matched

\* the cells of a line: all whitespace removed, then one leading and one
\* trailing pipe, then the pieces between the remaining pipes
CellBounds(s) == {0, Len(s) + 1} \cup { i \in DOMAIN s : s[i] = "|" }

EveryCellAligns(line) ==
    LET s0 == RemoveWhitespace(line)
        s1 == IF s0 # <<>> /\ s0[1] = "|" THEN Tail(s0) ELSE s0
        s == IF s1 # <<>> /\ s1[Len(s1)] = "|"
             THEN SubSeq(s1, 1, Len(s1) - 1) ELSE s1
    IN \A i, j \in CellBounds(s) :
          (i < j /\ \A k \in CellBounds(s) : ~(i < k /\ k < j))
          => LET cell == SubSeq(s, i + 1, j - 1)
             IN \E dashes \in 3..Len(s) + 3 :
                   \E left \in {<<>>, <<":">>}, right \in {<<>>, <<":">>} :
                       cell = left \o [k \in 1..dashes |-> "-"] \o right

\* the lines from, from + 1, ... up to (and with) to are non-blank and
\* contain a pipe
PipeRun(doc, from, to) ==
    \A k \in from..to : trim(doc[k]) # <<>> /\ Includes(doc[k], "|")

\* C33: a table is detected at line L exactly when L contains a pipe, L + 1
\* exists, contains a pipe and consists of alignment cells; the region ends
\* with the maximal run of non-blank lines with a pipe that follow L + 1.
C33_TableRegion ==
    (parse.state = "done" /\ parse.fn = "table")
    => LET L == parse.startLineNumber
           doc == parse.doc
       IN /\ parse.range.found
             <=> /\ L <= Len(doc)
                 /\ Includes(doc[L], "|")
                 /\ L + 1 <= Len(doc)
                 /\ Includes(doc[L + 1], "|")
                 /\ EveryCellAligns(doc[L + 1])
          /\ parse.range.found
             => /\ parse.range.headerLineNo = L
                /\ parse.range.alignLineNo = L + 1
                /\ parse.range.endLineNo \in (L + 1)..Len(doc)
                /\ PipeRun(doc, L + 2, parse.range.endLineNo)
                /\ parse.range.endLineNo < Len(doc)
                   => ~PipeRun(doc, L + 2, parse.range.endLineNo + 1)

\* a table was detected whose region stops before a later line with a pipe
C33_Witness ==
    /\ parse.state = "done"
    /\ parse.fn = "table"
    /\ parse.range.found
    /\ parse.range.endLineNo = parse.range.alignLineNo + 1
    /\ Len(parse.doc) = parse.range.endLineNo + 2
    /\ Includes(parse.doc[Len(parse.doc)], "|")

\* nothing is in flight between surface s and the authority, and neither
\* side has an unanswered edit of s
Settled(s) ==
    /\ toExt[s] = <<>>
    /\ toWebview[s] = <<>>
    /\ pendingRequestIds[s] = <<>>
    /\ pendingApplyQueue[s] = <<>>

\* C35: whenever nothing is in flight and neither side has a pending edit,
\* the surface's buffer is the document's text and lastConfirmedVersion is
\* the document's version.
C35_SettledAgreement ==
    \A s \in Surfaces :
        Settled(s) => /\ buffer[s] = docText
                      /\ lastConfirmedVersion[s] = docVersion

\* C36: handling a DOC_PATCH or a DOC_RESYNC sends no APPLY_EDIT and adds no
\* requestId to the pending queue, leaves isApplyingRemote false, and a
\* DOC_PATCH whose dispatch fails leaves lastConfirmedVersion as it was.
C36_RemoteChangeNotEchoed ==
    [][\A s \in Surfaces :
          (Delivered(s, "DOC_PATCH") \/ Delivered(s, "DOC_RESYNC"))
          => /\ toExt'[s] = toExt[s] \/ Posted(s, MsgRequestDocResync)
             /\ pendingRequestIds'[s] \in {pendingRequestIds[s], <<>>}
             /\ nextRequestId'[s] = nextRequestId[s]
             /\ ~isApplyingRemote'[s]
             /\ (/\ Delivered(s, "DOC_PATCH")
                 /\ ~InRange(buffer[s], Head(toWebview[s]).changes))
                => lastConfirmedVersion'[s] = lastConfirmedVersion[s]]_vars

\* a patch has been applied to the buffer of a surface that never made a
\* local edit, and nothing is queued or sent
C36_Witness ==
    \E s \in Surfaces :
        /\ buffer[s] = <<"b", "a">>
        /\ nextRequestId[s] = 1
        /\ lastConfirmedVersion[s] = 2
        /\ pendingRequestIds[s] = <<>>
        /\ toExt[s] = <<>>
        /\ ~isApplyingRemote[s]

\* a step in which the insertion of attachment id was applied to the document
InsertionApplied(id) ==
    /\ attachments[id].state = "applying"
    /\ attachments'[id].state = "applied"

\* C37: the insertion of a CREATE_ATTACHMENT or INSERT_IMAGE_REFERENCE is
\* applied to the document only while its version is the request's
\* baseVersion; a request whose baseVersion differs leaves the document as it
\* is and is answered with CREATE_ATTACHMENT_RESULT{ok:false} and
\* DOC_RESYNC{reason:"version_mismatch"}.
C37_InsertionAtBaseVersion ==
    [][/\ \A id \in DOMAIN attachments :
             InsertionApplied(id) => docVersion = attachments[id].baseVersion
       /\ \A s \in Surfaces :
             (/\ Taken(s, "CREATE_ATTACHMENT") \/ Taken(s, "INSERT_IMAGE_REFERENCE")
              /\ Head(toExt[s]).baseVersion # docVersion)
             => /\ docText' = docText
                /\ docVersion' = docVersion
                /\ toWebview'[s] =
                      toWebview[s] \o
                      <<MsgCreateAttachmentResult(Head(toExt[s]).requestId, FALSE,
                                                  "version_mismatch"),
                        MsgDocResync(docText, docVersion, "version_mismatch")>>]_vars

\* a REQUEST_DOC_RESYNC of surface s is the next message the authority handles
ResyncRequested(s) ==
    toExt[s] # <<>> /\ Head(toExt[s]).type = "REQUEST_DOC_RESYNC"

\* C38: the step that handles a REQUEST_DOC_RESYNC sends the surface exactly
\* one message, DOC_RESYNC{reason:"requested"} with the document's text and
\* version of that moment, empties the surface's token queue and leaves the
\* document alone; and every REQUEST_DOC_RESYNC is handled.
C38_ResyncAnswered ==
    /\ [][\A s \in Surfaces :
             Taken(s, "REQUEST_DOC_RESYNC")
             => /\ toWebview'[s] =
                      Append(toWebview[s],
                             MsgDocResync(docText, docVersion, "requested"))
                /\ pendingApplyQueue'[s] = <<>>
                /\ docText' = docText
                /\ docVersion' = docVersion]_vars
    /\ \A s \in Surfaces : ResyncRequested(s) ~> ~ResyncRequested(s)

\* a requested resync is on its way to a surface whose token was dropped
\* while the applyEdit call of that token is still outstanding
C38_Witness ==
    \E s \in Surfaces :
        /\ toWebview[s] # <<>>
        /\ Last(toWebview[s]) = MsgDocResync(docText, docVersion, "requested")
        /\ pendingApplyQueue[s] = <<>>
        /\ \E i \in DOMAIN applyCalls : applyCalls[i].editor = s

\* the RESOURCE_URI_RESULT messages with requestId id
ResultsFor(id) ==
    { MsgResourceUriResult(id, ok, uri, error) :
          ok \in BOOLEAN,
          uri \in {Absent, "webview:/img.png", "webview:/other"} \cup ExternalHrefs,
          error \in {Absent, "external_images_disabled", "not_found", "exception"} }

\* C39: the authority answers a REQUEST_RESOURCE_URI with exactly one
\* RESOURCE_URI_RESULT of the same requestId, at once or when the stat call
\* it started settles; and every pending entry of a surface's cache becomes
\* ok or error.
C39_ResourceRequestAnswered ==
    /\ [][/\ \A s \in Surfaces :
                Taken(s, "REQUEST_RESOURCE_URI")
                => LET id == Head(toExt[s]).requestId
                       call == [editor |-> s, requestId |-> id,
                                href |-> Head(toExt[s]).href]
                   IN \/ /\ \E result \in ResultsFor(id) :
                                toWebview'[s] = Append(toWebview[s], result)
                         /\ statCalls' = statCalls
                      \/ /\ toWebview'[s] = toWebview[s]
                         /\ call \notin statCalls
                         /\ statCalls' = statCalls \cup {call}
          /\ \A call \in statCalls :
                call \notin statCalls'
                => \E result \in ResultsFor(call.requestId) :
                      toWebview'[call.editor] =
                          Append(toWebview[call.editor], result)]_vars
    /\ \A s \in Surfaces, k \in CacheKeys :
          (resolvedImageCache[s][k].kind = "pending")
          ~> (resolvedImageCache[s][k].kind \in {"ok", "error"})

\* the answer "not_found" is about to reach a surface whose cache entry for
\* that request is pending
C39_Witness ==
    \E s \in Surfaces :
        /\ toWebview[s] # <<>>
        /\ Head(toWebview[s]).type = "RESOURCE_URI_RESULT"
        /\ Head(toWebview[s]).error = "not_found"
        /\ \E p \in pendingResourceRequestIds[s] :
              /\ p[1] = Head(toWebview[s]).requestId
              /\ resolvedImageCache[s][p[2]].kind = "pending"

====
